---- MODULE Spec2Model ----
(***************************************************************************)
(* State-machine model of the Steam id processor: the queue file           *)
(* (queue-manager.js), the connection pool (proxy-manager.js), the         *)
(* validation client (steam-validator.js) and the worker loop and timers   *)
(* of index.js.                                                            *)
(*                                                                         *)
(* Node runs one callback at a time.  Every `await` on file I/O, on an     *)
(* HTTP request or on a timer is a suspension point: the model gives each  *)
(* of them a pc label, and `cpu` names the activity whose synchronous      *)
(* continuation is running (no other activity and no clock tick may step   *)
(* until it reaches its next suspension point).                            *)
(***************************************************************************)
EXTENDS Integers, Sequences, FiniteSets, TLC

(***************************************************************************)
(* Bounds of the model                                                     *)
(***************************************************************************)
MaxIds == 2
MaxRequests == 1
MaxSweeps == 1
MaxLongTicks == 1
MaxShortTicks == 1
MaxSelLen == 2

Ids == 1..MaxIds

(***************************************************************************)
(* Check names and statuses                                                *)
(***************************************************************************)
RateLimitedChecks == {"friends", "csgo_inventory"}

nonRateLimitedChecks ==
  <<"animated_avatar", "avatar_frame", "mini_profile_background",
    "profile_background", "steam_level">>

CanonicalOrder ==
  <<"animated_avatar", "avatar_frame", "mini_profile_background",
    "profile_background", "steam_level", "friends", "csgo_inventory">>

validStatuses == {"to_check", "passed", "failed", "deferred"}

Range(s) == {s[k] : k \in 1..Len(s)}

(***************************************************************************)
(* A profile's `checks` object.  A JavaScript object keeps its string keys *)
(* in insertion order and JSON.stringify / JSON.parse keep that order, so  *)
(* the object is a sequence of (name, status) pairs.                       *)
(***************************************************************************)
NewProfileChecks_Reordered ==
  << [name |-> "animated_avatar", status |-> "to_check"],
     [name |-> "avatar_frame", status |-> "to_check"],
     [name |-> "mini_profile_background", status |-> "to_check"],
     [name |-> "profile_background", status |-> "to_check"],
     [name |-> "friends", status |-> "to_check"],
     [name |-> "steam_level", status |-> "to_check"],
     [name |-> "csgo_inventory", status |-> "to_check"] >>

NewProfileChecks ==
  << [name |-> "animated_avatar", status |-> "to_check"],
     [name |-> "avatar_frame", status |-> "to_check"],
     [name |-> "mini_profile_background", status |-> "to_check"],
     [name |-> "profile_background", status |-> "to_check"],
     [name |-> "steam_level", status |-> "to_check"],
     [name |-> "friends", status |-> "to_check"],
     [name |-> "csgo_inventory", status |-> "to_check"] >>

NewProfile(steamId) == [steam_id |-> steamId, checks |-> NewProfileChecks]

\* profile.checks[checkName]; "undefined" when the key is missing
CheckStatus(checks, checkName) ==
  IF \E k \in 1..Len(checks) : checks[k].name = checkName
  THEN checks[CHOOSE k \in 1..Len(checks) : checks[k].name = checkName].status
  ELSE "undefined"

\* profile.checks[checkName] = status
SetCheck(checks, checkName, status) ==
  IF \E k \in 1..Len(checks) : checks[k].name = checkName
  THEN [k \in 1..Len(checks) |->
          IF checks[k].name = checkName
          THEN [name |-> checkName, status |-> status]
          ELSE checks[k]]
  ELSE Append(checks, [name |-> checkName, status |-> status])

\* Object.values(profile.checks).some(s => s === status)
SomeStatus(checks, status) == \E k \in 1..Len(checks) : checks[k].status = status

\* Object.values(profile.checks).every(s => s is in allowed)
EveryStatusIn(checks, allowed) == \A k \in 1..Len(checks) : checks[k].status \in allowed

\* profiles.findIndex(p => p.steam_id === steamId), 0 when absent
FindIndex(profiles, steamId) ==
  IF \E k \in 1..Len(profiles) : profiles[k].steam_id = steamId
  THEN CHOOSE k \in 1..Len(profiles) :
         /\ profiles[k].steam_id = steamId
         /\ \A j \in 1..(k - 1) : profiles[j].steam_id # steamId
  ELSE 0

InQueue_Never(profiles, steamId) == FALSE

InQueue(profiles, steamId) == FindIndex(profiles, steamId) # 0

ProfileOf(profiles, steamId) == profiles[FindIndex(profiles, steamId)]

NoProfile == [steam_id |-> 0, checks |-> << >>]

(***************************************************************************)
(* Queue Store: what each mutation computes from the array it has read     *)
(***************************************************************************)
PushProfile_Front(profiles, steamId) == <<NewProfile(steamId)>> \o profiles

\* profiles.push(profile)
PushProfile(profiles, steamId) == Append(profiles, NewProfile(steamId))

UpdatedProfiles_Everywhere(profiles, steamId, checkName, status) ==
  [k \in 1..Len(profiles) |->
     [profiles[k] EXCEPT !.checks = SetCheck(@, checkName, status)]]

\* profiles[profileIndex].checks[checkName] = status
UpdatedProfiles(profiles, steamId, checkName, status) ==
  LET profileIndex == FindIndex(profiles, steamId) IN
  [k \in 1..Len(profiles) |->
     IF k = profileIndex
     THEN [profiles[k] EXCEPT !.checks = SetCheck(@, checkName, status)]
     ELSE profiles[k]]

FilteredProfiles_DropHead(profiles, steamId) == SubSeq(profiles, 2, Len(profiles))

\* profiles.filter(p => p.steam_id !== steamId)
FilteredProfiles(profiles, steamId) ==
  SelectSeq(profiles, LAMBDA p : p.steam_id # steamId)

ConvertedProfiles_FailedToo(profiles) ==
  [k \in 1..Len(profiles) |->
     [profiles[k] EXCEPT !.checks =
        [j \in 1..Len(@) |->
           IF @[j].status \in {"deferred", "failed"}
           THEN [name |-> @[j].name, status |-> "to_check"]
           ELSE @[j]]]]

\* every "deferred" status of every profile replaced by "to_check"
ConvertedProfiles(profiles) ==
  [k \in 1..Len(profiles) |->
     [profiles[k] EXCEPT !.checks =
        [j \in 1..Len(@) |->
           IF @[j].status = "deferred"
           THEN [name |-> @[j].name, status |-> "to_check"]
           ELSE @[j]]]]

\* totalDeferred of getDeferredCheckStats is positive
HasDeferred(profiles) ==
  \E k \in 1..Len(profiles) : SomeStatus(profiles[k].checks, "deferred")

hasNonRateLimitedToCheck(p) ==
  \E k \in 1..Len(nonRateLimitedChecks) :
     CheckStatus(p.checks, nonRateLimitedChecks[k]) = "to_check"

\* the for-loop of getNextProcessableProfile: the first profile with a
\* non-rate-limited check still "to_check"
FirstNonRateLimited(profiles) ==
  IF \E k \in 1..Len(profiles) : hasNonRateLimitedToCheck(profiles[k])
  THEN profiles[CHOOSE k \in 1..Len(profiles) :
                   /\ hasNonRateLimitedToCheck(profiles[k])
                   /\ \A j \in 1..(k - 1) : ~hasNonRateLimitedToCheck(profiles[j])]
  ELSE NoProfile

getNextProcessableProfile_NoCooldownTest(profiles, allConnectionsInCooldown) ==
  IF Len(profiles) = 0 THEN NoProfile
  ELSE profiles[1]

getNextProcessableProfile(profiles, allConnectionsInCooldown) ==
  IF Len(profiles) = 0 THEN NoProfile
  ELSE
    LET firstProfile == profiles[1]
        firstProfileHasToCheck == SomeStatus(firstProfile.checks, "to_check")
        firstProfileHasDeferred == SomeStatus(firstProfile.checks, "deferred")
        fallThrough ==
          IF allConnectionsInCooldown THEN FirstNonRateLimited(profiles)
          ELSE NoProfile
    IN IF ~firstProfileHasToCheck
       THEN IF ~firstProfileHasDeferred THEN firstProfile
            ELSE IF ~allConnectionsInCooldown THEN firstProfile
                 ELSE fallThrough
       ELSE IF ~allConnectionsInCooldown THEN firstProfile
            ELSE fallThrough

\* Object.entries(profile.checks).filter(status === "to_check").map(name)
ChecksToRun(checks) ==
  LET todo == SelectSeq(checks, LAMBDA c : c.status = "to_check")
  IN [k \in 1..Len(todo) |-> todo[k].name]

\* getAllChecksComplete
AllComplete(checks) == EveryStatusIn(checks, {"passed", "failed"})
AllPassed(checks) == EveryStatusIn(checks, {"passed"})

(***************************************************************************)
(* Connection Pool (proxy-manager.js).  `config` is the record             *)
(* [connections, current_index]; current_index is 0-based as in the source *)
(* and times are epoch milliseconds.                                       *)
(***************************************************************************)
\* cooldown_until: null; the source tests it by truthiness, and no timestamp is 0
Null == 0

DEFAULT_COOLDOWN_DURATION == 21900000

\* url: null of the direct connection
NoUrl == ""

\* a connection as initializeConfig, ensureConfigStructure and addSocks5Proxy
\* create it (last_error, a log text, is left out)
NewConnection(type, url) ==
  [type |-> type, url |-> url, in_cooldown |-> FALSE, cooldown_until |-> Null]

Connection(type) == NewConnection(type, NoUrl)

\* connections[index] with the source's 0-based index
ConnAt(config, index) == config.connections[index + 1]

checkAndResetCooldowns_Never(config, t) == config

checkAndResetCooldowns_Strict(config, t) ==
  [config EXCEPT !.connections =
     [k \in 1..Len(@) |->
        IF @[k].in_cooldown /\ @[k].cooldown_until # Null /\ @[k].cooldown_until < t
        THEN [@[k] EXCEPT !.in_cooldown = FALSE, !.cooldown_until = Null]
        ELSE @[k]]]

checkAndResetCooldowns(config, t) ==
  [config EXCEPT !.connections =
     [k \in 1..Len(@) |->
        IF @[k].in_cooldown /\ @[k].cooldown_until # Null /\ @[k].cooldown_until <= t
        THEN [@[k] EXCEPT !.in_cooldown = FALSE, !.cooldown_until = Null]
        ELSE @[k]]]

areAllConnectionsInCooldown_Never(config, t) == FALSE

areAllConnectionsInCooldown(config, t) ==
  LET c == checkAndResetCooldowns(config, t)
  IN \A k \in 1..Len(c.connections) : c.connections[k].in_cooldown

\* Number.MAX_SAFE_INTEGER, cut to the integers of the model
MAX_SAFE_INTEGER == 2147483647

EarliestIndex_Latest(connections) ==
  LET stamped == {k \in 1..Len(connections) : connections[k].cooldown_until # Null}
  IN IF stamped = {} THEN 0
     ELSE (CHOOSE k \in stamped :
             \A j \in stamped :
                connections[k].cooldown_until >= connections[j].cooldown_until)
          - 1

\* the earliest-expiry scan of getNextAvailableConnection (0-based result)
EarliestIndex(connections) ==
  LET stamped == {k \in 1..Len(connections) : connections[k].cooldown_until # Null}
  IN IF stamped = {} THEN 0
     ELSE (CHOOSE k \in stamped :
             \A j \in stamped :
                \/ connections[k].cooldown_until < connections[j].cooldown_until
                \/ (connections[k].cooldown_until = connections[j].cooldown_until /\ k <= j))
          - 1

\* earliestTime of the same scan
EarliestTime(connections) ==
  LET stamped == {k \in 1..Len(connections) : connections[k].cooldown_until # Null}
  IN IF stamped = {} THEN MAX_SAFE_INTEGER
     ELSE connections[EarliestIndex(connections) + 1].cooldown_until

getNextAvailableConnection_FromZero(config0, t) ==
  LET config == checkAndResetCooldowns(config0, t)
      n == Len(config.connections)
      at(a) == a % n
      free == {a \in 1..n : ~ConnAt(config, at(a)).in_cooldown}
  IN IF free # {}
     THEN LET a == CHOOSE x \in free : \A y \in free : x <= y
          IN [config |-> [config EXCEPT !.current_index = at(a)],
              allInCooldown |-> FALSE, earliestAvailable |-> Null, index |-> at(a)]
     ELSE LET e == EarliestIndex(config.connections)
          IN [config |-> [config EXCEPT !.current_index = e],
              allInCooldown |-> TRUE,
              earliestAvailable |-> EarliestTime(config.connections), index |-> e]

\* Result record: the new config, whether every connection is cooled
\* (_allInCooldown), _earliestAvailable and the index of the connection returned.
getNextAvailableConnection(config0, t) ==
  LET config == checkAndResetCooldowns(config0, t)
      n == Len(config.connections)
      \* index visited at attempt a (1..n): (current_index + a) % n
      at(a) == (config.current_index + a) % n
      free == {a \in 1..n : ~ConnAt(config, at(a)).in_cooldown}
  IN IF free # {}
     THEN LET a == CHOOSE x \in free : \A y \in free : x <= y
          IN [config |-> [config EXCEPT !.current_index = at(a)],
              allInCooldown |-> FALSE, earliestAvailable |-> Null, index |-> at(a)]
     ELSE LET e == EarliestIndex(config.connections)
          IN [config |-> [config EXCEPT !.current_index = e],
              allInCooldown |-> TRUE,
              earliestAvailable |-> EarliestTime(config.connections), index |-> e]

getCurrentConnection(config0, t) ==
  LET config == checkAndResetCooldowns(config0, t)
  IN IF ConnAt(config, config.current_index).in_cooldown
     THEN getNextAvailableConnection(config, t)
     ELSE [config |-> config, allInCooldown |-> FALSE, earliestAvailable |-> Null,
           index |-> config.current_index]

CooldownDuration_Flat(config, errorType, endpoint) == 10 * 60 * 1000

\* cooldown matrix of markCurrentAsCooldown
CooldownDuration(config, errorType, endpoint) ==
  IF errorType = "429"
  THEN IF endpoint = "friends" THEN 5 * 60 * 1000
       ELSE config.cooldown_duration_ms
  ELSE IF errorType = "connection_error" THEN 10 * 60 * 1000
  ELSE IF errorType = "socks_error" THEN 15 * 60 * 1000
  ELSE 10 * 60 * 1000

markCurrentAsCooldown_NoStamp(config, errorType, endpoint, t) ==
  getNextAvailableConnection(config, t)

markCurrentAsCooldown(config, errorType, endpoint, t) ==
  LET stamped ==
        [config EXCEPT !.connections[config.current_index + 1] =
           [@ EXCEPT !.in_cooldown = TRUE,
                     !.cooldown_until = t + CooldownDuration(config, errorType, endpoint)]]
  IN getNextAvailableConnection(stamped, t)

\* availableConnections of getConnectionStatus, counted after the sweep
availableConnections(config, t) ==
  LET c == checkAndResetCooldowns(config, t)
  IN Cardinality({k \in 1..Len(c.connections) : ~c.connections[k].in_cooldown})

\* getConnectionStatus: the config after the sweep and the fields of the
\* status object that callers read
getConnectionStatus(config0, t) ==
  LET config == checkAndResetCooldowns(config0, t)
      conns == config.connections
      cooled == {k \in 1..Len(conns) : conns[k].in_cooldown /\ conns[k].cooldown_until # Null}
  IN [config |-> config,
      totalConnections |-> Len(conns),
      availableConnections |-> availableConnections(config0, t),
      allInCooldown |-> availableConnections(config0, t) = 0,
      nextAvailableIn |->
        IF cooled = {} THEN Null
        ELSE LET e == EarliestTime([k \in 1..Len(conns) |->
                                      IF k \in cooled THEN conns[k]
                                      ELSE [conns[k] EXCEPT !.cooldown_until = Null]])
             IN IF e - t > 0 THEN e - t ELSE 0,
      connections |-> [k \in 1..Len(conns) |->
                         IF conns[k].in_cooldown THEN "cooldown" ELSE "available"]]

\* a field the loaded config file does not have
Missing == -1

\* ensureConfigStructure on the parsed config file `raw`
ensureConfigStructure(raw) ==
  LET directConnectionExists ==
        \E k \in 1..Len(raw.connections) : raw.connections[k].type = "direct"
      unshifted == IF directConnectionExists THEN raw.connections
                   ELSE <<NewConnection("direct", NoUrl)>> \o raw.connections
  IN [connections |->
        SelectSeq(unshifted, LAMBDA conn : conn.type = "direct" \/ conn.type = "socks5"),
      current_index |-> IF raw.current_index = Missing THEN 0 ELSE raw.current_index,
      cooldown_duration_ms |->
        IF raw.cooldown_duration_ms = Missing THEN DEFAULT_COOLDOWN_DURATION
        ELSE raw.cooldown_duration_ms]

\* addSocks5Proxy for a url that starts with socks5://
addSocks5Proxy(config, proxyUrl) ==
  LET exists == \E k \in 1..Len(config.connections) :
                   config.connections[k].type = "socks5"
                   /\ config.connections[k].url = proxyUrl
  IN IF exists THEN config
     ELSE [config EXCEPT !.connections = Append(@, NewConnection("socks5", proxyUrl))]

\* the connections removeSocks5Proxy keeps
KeptBy(connections, proxyUrl) ==
  {k \in 1..Len(connections) :
     ~(connections[k].type = "socks5" /\ connections[k].url = proxyUrl)}

removeSocks5Proxy(config, proxyUrl) ==
  LET kept == SelectSeq(config.connections,
                        LAMBDA conn : ~(conn.type = "socks5" /\ conn.url = proxyUrl))
  IN IF Len(kept) < Len(config.connections)
     THEN [config EXCEPT !.connections = kept,
                         !.current_index = IF @ >= Len(kept) THEN 0 ELSE @]
     ELSE config

(***************************************************************************)
(* Validation client helpers (steam-validator.js)                          *)
(***************************************************************************)
minApiCallInterval == 1000

\* endpoint classification of makeApiRequest
Endpoint(checkName) ==
  IF checkName = "friends" THEN "friends"
  ELSE IF checkName = "csgo_inventory" THEN "inventory"
  ELSE "other"

needsProxy_Always(checkName) == TRUE

\* the second argument of makeApiRequest in each check function
needsProxy(checkName) == checkName \in RateLimitedChecks

\* this.deferredChecks: a Map from steam id to a Set of check types; both keep
\* insertion order, so it is a sequence of entries with a sequence of types.
addToDeferredChecks(dc, steamId, checkType) ==
  IF \E k \in 1..Len(dc) : dc[k].steamId = steamId
  THEN [k \in 1..Len(dc) |->
          IF dc[k].steamId = steamId /\ checkType \notin Range(dc[k].checkTypes)
          THEN [dc[k] EXCEPT !.checkTypes = Append(@, checkType)]
          ELSE dc[k]]
  ELSE Append(dc, [steamId |-> steamId, checkTypes |-> <<checkType>>])

clearDeferredCheck(dc, steamId, checkType) ==
  LET cleared ==
        [k \in 1..Len(dc) |->
           IF dc[k].steamId = steamId
           THEN [dc[k] EXCEPT !.checkTypes = SelectSeq(@, LAMBDA t : t # checkType)]
           ELSE dc[k]]
  IN SelectSeq(cleared, LAMBDA e : Len(e.checkTypes) > 0)

DeferredTypes(dc, steamId) ==
  IF \E k \in 1..Len(dc) : dc[k].steamId = steamId
  THEN dc[CHOOSE k \in 1..Len(dc) : dc[k].steamId = steamId].checkTypes
  ELSE << >>

(***************************************************************************)
(* What the remote services may answer                                     *)
(***************************************************************************)
\* answers of the Steam endpoints to one request
SteamResponses(checkName) ==
  IF needsProxy(checkName)
  THEN {"pass", "fail", "401", "error", "429", "socks_error", "connection_error"}
  ELSE IF checkName = "steam_level"
       THEN {"pass", "fail", "empty", "error", "429", "connection_error"}
       ELSE {"pass", "fail", "error", "429", "connection_error"}

\* answers of the downstream write (sendSteamIdToApi)
ApiResponses == {"200", "link_exists", "503", "no_response", "400"}

\* answers of the remote existence check (checkSteamIdExists)
ExistsResponses == {"exists", "absent", "failed"}

\* handleNewSteamId: result.success
ApiSuccess(response) == response \in {"200", "link_exists"}

\* isRetryableError of processQueuedProfiles
isRetryableError(response) == response \in {"503", "no_response"}

(***************************************************************************)
(* State                                                                   *)
(***************************************************************************)
VARIABLES
  queue,            \* contents of profiles_queue.json
  config,           \* ProxyManager.config
  now,              \* Date.now()
  lastApiCallTime,  \* SteamValidator.lastApiCallTime
  deferredChecks,   \* SteamValidator.deferredChecks
  isProcessing,     \* the global flag of index.js
  wk,               \* processQueue / processQueuedProfiles: position and locals
  sw,               \* checkProxyStatus: position and locals
  fop,              \* per activity: the queue-file operation it is awaiting
  ck,               \* per activity: the check call (makeApiRequest) it is awaiting
  dr,               \* per activity: its processDeferredChecks call
  cpu,              \* the activity whose callback is running, or "free"
  requests,         \* number of ingress requests accepted so far
  sweeps,           \* number of checkProxyStatus runs started so far
  serial,           \* history: the queue operations applied one at a time
  enqueued,         \* history: ids appended to the queue
  resolved,         \* history: ids terminally resolved
  failedEval,       \* history: ids one of whose checks evaluated to failed
  lastSent,         \* history: Date.now() of the latest outbound request, 0 if none
  pool,             \* the latest ProxyManager call and what it returned
  downstream,       \* history: per id the answers of its downstream writes
  life              \* the process: running, stopping or exited

vars == <<queue, config, now, lastApiCallTime, deferredChecks, isProcessing,
          wk, sw, fop, ck, dr, cpu, requests, sweeps,
          serial, enqueued, resolved, failedEval, lastSent, pool, downstream, life>>

histVars == <<serial, enqueued, resolved, failedEval>>

Callers == {"worker", "sweep"}
Ingress == {"ingress1", "ingress2"}
\* "main": the conversion main() starts before the loops
Activities == Callers \cup Ingress \cup {"main"}

\* attempts: the counter of withFileOperation; wakeAt: the end of its delay;
\* failed (history): the file access of the current attempt raised an error
FopNone ==
  [pc |-> "none", kind |-> "get", steamId |-> 0, checkName |-> "",
   status |-> "", buf |-> << >>, ret |-> FALSE,
   attempts |-> 0, wakeAt |-> 0, failed |-> FALSE]

FopRead(kind, steamId, checkName, status) ==
  [pc |-> "read", kind |-> kind, steamId |-> steamId, checkName |-> checkName,
   status |-> status, buf |-> << >>, ret |-> FALSE,
   attempts |-> 1, wakeAt |-> 0, failed |-> FALSE]

\* tried (history): the urls of the connections that carried the requests of
\* this call so far, the latest last
CkNone ==
  [pc |-> "none", steamId |-> 0, checkName |-> "", wakeAt |-> 0,
   via |-> 0, result |-> "", tried |-> << >>]

DrNone == [pc |-> "none", entries |-> << >>, ei |-> 0, seen |-> {}, cur |-> ""]

\* ended (history): "raised" when the previous pass ended in the catch block;
\* selectedComplete (history): the profile the pass selected had every check
\* passed or failed
WkIdle ==
  [pc |-> "idle", allConnectionsInCooldown |-> FALSE, steamId |-> 0,
   checksToRun |-> << >>, i |-> 0, isPrivateProfile |-> FALSE,
   apiResult |-> "", dispatched |-> << >>, ended |-> "",
   selectedComplete |-> FALSE]

\* The latest ProxyManager call since the clock last advanced.  call: its
\* name; from, before: current_index and the connections when it was made;
\* args: its arguments; ret: what it returned; stamps (history): per
\* connection the expiry of its latest cooldown stamp; rotations, missed
\* (history): the rotations made since the latest stamp or list change, and
\* the connections not cooled when they began that current() has not
\* returned after one of them; ticks, calls: the clock advances and the calls
\* that stamp a cooldown or change the list so far.
PoolNone ==
  [call |-> "none", from |-> 0, before |-> << >>, args |-> << >>,
   ret |-> << >>, stamps |-> << >>, rotations |-> 0, missed |-> {},
   ticks |-> 0, calls |-> 0]

SwIdle == [pc |-> "idle", availableConnections |-> 0, totalDeferred |-> FALSE]

\* a profile whose first `done` checks were passed before a restart
PartlyChecked(steamId, done) ==
  [steam_id |-> steamId,
   checks |-> [k \in 1..Len(NewProfileChecks) |->
                 IF k <= done
                 THEN [name |-> NewProfileChecks[k].name, status |-> "passed"]
                 ELSE NewProfileChecks[k]]]

\* queue files found at start-up
InitQueues ==
  { << >>, <<PartlyChecked(1, 4)>>, <<PartlyChecked(1, 5), PartlyChecked(2, 4)>> }

\* the default configuration written by initializeConfig
DefaultConfig ==
  [connections |-> <<Connection("direct")>>, current_index |-> 0,
   cooldown_duration_ms |-> DEFAULT_COOLDOWN_DURATION]

\* the process: phase is "running", "stopping" once gracefulShutdown has
\* stopped the server and armed its timer, "exited" after process.exit;
\* exitAt is when that timer fires; restarts counts the restarts so far
LifeRunning == [phase |-> "running", exitAt |-> 0, restarts |-> 0]

InitCommon ==
  /\ config = DefaultConfig
  /\ now = minApiCallInterval
  /\ lastApiCallTime = 0
  /\ deferredChecks = << >>
  /\ isProcessing = FALSE
  /\ wk = WkIdle
  /\ sw = SwIdle
  /\ fop = [a \in Activities |-> FopNone]
  /\ ck = [a \in Callers |-> CkNone]
  /\ dr = [a \in Callers |-> DrNone]
  /\ cpu = "free"
  /\ requests = 0
  /\ sweeps = 0
  /\ resolved = {}
  /\ failedEval = {}
  /\ lastSent = 0
  /\ pool = PoolNone
  /\ downstream = [steamId \in Ids |-> << >>]
  /\ life = LifeRunning

Init ==
  /\ queue \in InitQueues
  /\ serial = queue
  /\ enqueued = {queue[k].steam_id : k \in 1..Len(queue)}
  /\ InitCommon

(***************************************************************************)
(* Queue-file operations.  Each QueueManager method reads the file          *)
(* (await fs.readFile), computes, and for a mutation writes the whole file *)
(* back (await fs.writeFile); nothing holds the file between the two.      *)
(***************************************************************************)
\* the operation applied in one piece (for the history variable `serial`)
ApplyOp(profiles, op) ==
  IF op.kind = "update"
  THEN IF InQueue(profiles, op.steamId) /\ op.status \in validStatuses
       THEN UpdatedProfiles(profiles, op.steamId, op.checkName, op.status)
       ELSE profiles
  ELSE IF op.kind = "remove" THEN FilteredProfiles(profiles, op.steamId)
  ELSE IF op.kind = "convert" THEN ConvertedProfiles(profiles)
  ELSE IF op.kind = "add"
       THEN IF InQueue(profiles, op.steamId) THEN profiles
            ELSE PushProfile(profiles, op.steamId)
  ELSE profiles

\* the state of an operation once the file has been read
AfterRead(op, profiles) ==
  IF op.kind = "get"
  THEN [op EXCEPT !.pc = "done", !.buf = profiles]
  ELSE IF op.kind = "update"
  THEN IF FindIndex(profiles, op.steamId) = 0
       THEN [op EXCEPT !.pc = "done", !.ret = FALSE]
       ELSE IF op.status \notin validStatuses
       THEN [op EXCEPT !.pc = "done", !.ret = FALSE]
       ELSE [op EXCEPT !.pc = "write",
                       !.buf = UpdatedProfiles(profiles, op.steamId, op.checkName, op.status)]
  ELSE IF op.kind = "remove"
  THEN IF Len(FilteredProfiles(profiles, op.steamId)) < Len(profiles)
       THEN [op EXCEPT !.pc = "write", !.buf = FilteredProfiles(profiles, op.steamId)]
       ELSE [op EXCEPT !.pc = "done", !.ret = FALSE]
  ELSE IF op.kind = "convert"
  THEN IF HasDeferred(profiles)
       THEN [op EXCEPT !.pc = "write", !.buf = ConvertedProfiles(profiles)]
       ELSE [op EXCEPT !.pc = "done"]
  ELSE \* "add"
       IF InQueue(profiles, op.steamId)
       THEN [op EXCEPT !.pc = "done", !.ret = TRUE]
       ELSE [op EXCEPT !.pc = "exists", !.buf = profiles]

FileRead(a) ==
  /\ cpu = "free"
  /\ fop[a].pc = "read"
  /\ LET op == AfterRead(fop[a], queue) IN
       /\ fop' = [fop EXCEPT ![a] = op]
       /\ cpu' = IF op.pc = "done" THEN a ELSE "free"
       /\ serial' = IF op.pc = "done" THEN ApplyOp(serial, op) ELSE serial
  /\ UNCHANGED <<queue, config, now, lastApiCallTime, deferredChecks, isProcessing,
                 wk, sw, ck, dr, requests, sweeps, enqueued, resolved, failedEval, pool, lastSent, downstream, life>>

\* addProfileToQueue: the answer of apiService.checkSteamIdExists arrives (the
\* frame keeps it in `status`, which an add does not use otherwise)
ExistsDone(a, answer) ==
  /\ cpu = "free"
  /\ fop[a].pc = "exists"
  /\ IF answer = "exists"
     THEN /\ fop' = [fop EXCEPT ![a].pc = "done", ![a].ret = FALSE,
                                ![a].status = answer]
          /\ cpu' = a
     ELSE /\ fop' = [fop EXCEPT ![a].pc = "write", ![a].status = answer,
                                ![a].buf = PushProfile(@, fop[a].steamId)]
          /\ cpu' = "free"
  /\ UNCHANGED <<queue, config, now, lastApiCallTime, deferredChecks, isProcessing,
                 wk, sw, ck, dr, requests, sweeps, histVars, pool, lastSent, downstream, life>>

FileWrite(a) ==
  /\ cpu = "free"
  /\ fop[a].pc = "write"
  /\ queue' = fop[a].buf
  /\ fop' = [fop EXCEPT ![a].pc = "done", ![a].ret = TRUE]
  /\ cpu' = a
  /\ serial' = ApplyOp(serial, fop[a])
  /\ IF fop[a].kind = "add"
     THEN /\ enqueued' = enqueued \cup {fop[a].steamId}
          /\ resolved' = resolved \ {fop[a].steamId}
          /\ failedEval' = failedEval \ {fop[a].steamId}
          /\ downstream' = [downstream EXCEPT ![fop[a].steamId] = << >>]
     ELSE UNCHANGED <<enqueued, resolved, failedEval, downstream>>
  /\ UNCHANGED <<config, now, lastApiCallTime, deferredChecks, isProcessing,
                 wk, sw, ck, dr, requests, sweeps, pool, lastSent, life>>

(***************************************************************************)
(* Ingress: POST /api/add-steam-id, for a request whose first existence    *)
(* check did not report the id as existing                                 *)
(***************************************************************************)
IngressStart(a, steamId) ==
  /\ cpu = "free"
  /\ fop[a].pc = "none"
  /\ a = "ingress2" => fop["ingress1"].pc # "none"
  /\ requests < MaxRequests
  /\ requests' = requests + 1
  /\ fop' = [fop EXCEPT ![a] = FopRead("add", steamId, "", "")]
  /\ UNCHANGED <<queue, config, now, lastApiCallTime, deferredChecks, isProcessing,
                 wk, sw, ck, dr, cpu, sweeps, histVars, pool, lastSent, downstream, life>>

IngressDone(a) ==
  /\ cpu = a
  /\ fop[a].pc = "done"
  /\ fop' = [fop EXCEPT ![a] = FopNone]
  /\ cpu' = "free"
  /\ UNCHANGED <<queue, config, now, lastApiCallTime, deferredChecks, isProcessing,
                 wk, sw, ck, dr, requests, sweeps, histVars, pool, lastSent, downstream, life>>

(***************************************************************************)
(* A check call: checkX(steamId) -> makeApiRequest(url, needsProxy)        *)
(***************************************************************************)
\* respectRateLimit at the start of makeApiRequest: sleep when the last call
\* was less than minApiCallInterval ago, else stamp lastApiCallTime and go on
StartCheck(a, steamId, checkName) ==
  LET timeSinceLast == now - lastApiCallTime
      \* the call is the retry of a request that failed
      tried == IF ck[a].pc = "inflight" THEN ck[a].tried ELSE << >>
  IN
  IF timeSinceLast < minApiCallInterval
  THEN /\ ck' = [ck EXCEPT ![a] =
                   [CkNone EXCEPT !.pc = "gate", !.steamId = steamId,
                                  !.checkName = checkName,
                                  !.wakeAt = now + (minApiCallInterval - timeSinceLast),
                                  !.tried = tried]]
       /\ UNCHANGED lastApiCallTime
       /\ cpu' = "free"
  ELSE /\ ck' = [ck EXCEPT ![a] =
                   [CkNone EXCEPT !.pc = "send", !.steamId = steamId,
                                  !.checkName = checkName, !.tried = tried]]
       /\ lastApiCallTime' = now
       /\ cpu' = a

\* the timer of respectRateLimit fires
GateWake(a) ==
  /\ cpu = "free"
  /\ ck[a].pc = "gate"
  /\ now >= ck[a].wakeAt
  /\ lastApiCallTime' = now
  /\ ck' = [ck EXCEPT ![a].pc = "send", ![a].wakeAt = 0]
  /\ cpu' = a
  /\ UNCHANGED <<queue, config, now, deferredChecks, isProcessing,
                 wk, sw, fop, dr, requests, sweeps, histVars, pool, lastSent, downstream, life>>

\* makeApiRequest between the rate gate and `await axiosInstance.get(url)`
SendRequest(a) ==
  /\ cpu = a
  /\ ck[a].pc = "send"
  /\ IF needsProxy(ck[a].checkName)
     THEN IF areAllConnectionsInCooldown(config, now)
          THEN \* { allInCooldown: true }: the check function defers the check
               /\ config' = checkAndResetCooldowns(config, now)
               /\ deferredChecks' =
                    addToDeferredChecks(deferredChecks, ck[a].steamId, ck[a].checkName)
               /\ ck' = [ck EXCEPT ![a].pc = "done", ![a].result = "deferred"]
               /\ cpu' = a
               /\ UNCHANGED lastSent
          ELSE \* createAxiosInstance -> getCurrentConnection
               LET cur == getCurrentConnection(config, now) IN
               /\ config' = cur.config
               /\ ck' = [ck EXCEPT ![a].pc = "inflight", ![a].via = cur.index,
                                   ![a].tried = Append(@, ConnAt(cur.config, cur.index).url)]
               /\ cpu' = "free"
               /\ lastSent' = now
               /\ UNCHANGED deferredChecks
     ELSE /\ ck' = [ck EXCEPT ![a].pc = "inflight"]
          /\ cpu' = "free"
          /\ lastSent' = now
          /\ UNCHANGED <<config, deferredChecks>>
  /\ UNCHANGED <<queue, now, lastApiCallTime, isProcessing,
                 wk, sw, fop, dr, requests, sweeps, histVars, pool, downstream, life>>

\* the outcome of a check function for an answer that puts no connection in cooldown
CheckOutcome(checkName, response) ==
  IF response = "pass" THEN "passed"
  ELSE IF response = "fail" THEN "failed"
  ELSE IF response = "empty" THEN "private"
  ELSE IF response = "401" THEN "passed"
  ELSE "error"

CooldownErrors == {"429", "socks_error", "connection_error"}

\* the request of a profile-asset check, or of a rate-limited check with an
\* answer that is no cooldown error, completes; the catch block of
\* makeApiRequest stamps no cooldown when needsProxy is false
Response(a, response) ==
  /\ cpu = "free"
  /\ ck[a].pc = "inflight"
  /\ response \in SteamResponses(ck[a].checkName)
  /\ ~(needsProxy(ck[a].checkName) /\ response \in CooldownErrors)
  /\ ck' = [ck EXCEPT ![a].pc = "done", ![a].via = 0,
                      ![a].result = CheckOutcome(ck[a].checkName, response)]
  /\ cpu' = a
  /\ UNCHANGED <<queue, config, now, lastApiCallTime, deferredChecks, isProcessing,
                 wk, sw, fop, dr, requests, sweeps, histVars, pool, lastSent, downstream, life>>

\* the catch block of makeApiRequest for 429 / SOCKS / connection errors on a
\* rate-limited endpoint: markCurrentAsCooldown, then retryWithNextConnection
ErrorResponse(a, errorType) ==
  /\ cpu = "free"
  /\ ck[a].pc = "inflight"
  /\ needsProxy(ck[a].checkName)
  /\ errorType \in SteamResponses(ck[a].checkName) \cap CooldownErrors
  /\ LET marked == markCurrentAsCooldown(config, errorType, Endpoint(ck[a].checkName), now)
         available == availableConnections(marked.config, now)
         nextConn == getNextAvailableConnection(marked.config, now)
     IN IF available > 0 /\ ~nextConn.allInCooldown
        THEN \* return this.makeApiRequest(url, needsProxy)
             /\ config' = nextConn.config
             /\ StartCheck(a, ck[a].steamId, ck[a].checkName)
             /\ UNCHANGED deferredChecks
        ELSE /\ config' = marked.config
             /\ deferredChecks' =
                  addToDeferredChecks(deferredChecks, ck[a].steamId, ck[a].checkName)
             /\ ck' = [ck EXCEPT ![a].pc = "done", ![a].via = 0, ![a].result = "deferred"]
             /\ cpu' = a
             /\ UNCHANGED lastApiCallTime
  /\ UNCHANGED <<queue, now, isProcessing, wk, sw, fop, dr, requests, sweeps, histVars, pool, lastSent, downstream, life>>

(***************************************************************************)
(* processDeferredChecks(queueManager), called by the processing pass and  *)
(* by checkProxyStatus                                                     *)
(***************************************************************************)
\* the first check type of the entry's live Set not yet visited, "" if none
NextType(dc, steamId, seen) ==
  LET left == SelectSeq(DeferredTypes(dc, steamId), LAMBDA t : t \notin seen)
  IN IF Len(left) = 0 THEN "" ELSE left[1]

RECURSIVE NextEntry(_, _, _, _)
\* the for-of loops over the snapshot: the next (entry index, check type)
NextEntry(dc, entries, ei, seen) ==
  IF ei > Len(entries) THEN [ei |-> ei, checkType |-> ""]
  ELSE IF NextType(dc, entries[ei], seen) # ""
       THEN [ei |-> ei, checkType |-> NextType(dc, entries[ei], seen)]
       ELSE NextEntry(dc, entries, ei + 1, {})

\* the synchronous head of processDeferredChecks: getConnectionStatus, then the
\* snapshot Array.from(this.deferredChecks.entries())
StartDrain(a) ==
  /\ config' = checkAndResetCooldowns(config, now)
  /\ dr' = [dr EXCEPT ![a] =
              IF availableConnections(config, now) = 0
              THEN [DrNone EXCEPT !.pc = "done"]
              ELSE [DrNone EXCEPT !.pc = "next", !.ei = 1,
                      !.entries = [k \in 1..Len(deferredChecks) |->
                                     deferredChecks[k].steamId]]]
  /\ cpu' = a

DrainNext(a) ==
  /\ cpu = a
  /\ dr[a].pc = "next"
  /\ LET nx == NextEntry(deferredChecks, dr[a].entries, dr[a].ei, dr[a].seen) IN
     IF nx.checkType = ""
     THEN /\ dr' = [dr EXCEPT ![a] = [DrNone EXCEPT !.pc = "done"]]
          /\ UNCHANGED <<ck, lastApiCallTime, cpu>>
     ELSE /\ dr' = [dr EXCEPT ![a].pc = "check", ![a].ei = nx.ei,
                              ![a].cur = nx.checkType,
                              ![a].seen = IF nx.ei = dr[a].ei
                                          THEN dr[a].seen \cup {nx.checkType}
                                          ELSE {nx.checkType}]
          /\ StartCheck(a, dr[a].entries[nx.ei], nx.checkType)
  /\ UNCHANGED <<queue, config, now, deferredChecks, isProcessing,
                 wk, sw, fop, requests, sweeps, histVars, pool, lastSent, downstream, life>>

DrainAfterCheck(a) ==
  /\ cpu = a
  /\ dr[a].pc = "check"
  /\ ck[a].pc = "done"
  /\ ck' = [ck EXCEPT ![a] = CkNone]
  /\ LET steamId == ck[a].steamId
         checkType == ck[a].checkName
         result == ck[a].result
     IN IF result \in {"passed", "failed"}
        THEN \* await queueManager.updateProfileCheck(steamId, checkType, ...)
             /\ fop' = [fop EXCEPT ![a] = FopRead("update", steamId, checkType, result)]
             /\ dr' = [dr EXCEPT ![a].pc = "update"]
             /\ cpu' = "free"
             /\ failedEval' = IF result = "failed" THEN failedEval \cup {steamId}
                              ELSE failedEval
             /\ resolved' = IF result = "failed" THEN resolved \cup {steamId}
                            ELSE resolved
             /\ UNCHANGED deferredChecks
        ELSE IF result = "deferred"
        THEN \* still in cooldown: return
             /\ dr' = [dr EXCEPT ![a] = [DrNone EXCEPT !.pc = "done"]]
             /\ UNCHANGED <<fop, cpu, deferredChecks, failedEval, resolved>>
        ELSE \* other error: drop the entry and go on
             /\ deferredChecks' = clearDeferredCheck(deferredChecks, steamId, checkType)
             /\ dr' = [dr EXCEPT ![a].pc = "next"]
             /\ UNCHANGED <<fop, cpu, failedEval, resolved>>
  /\ UNCHANGED <<queue, config, now, lastApiCallTime, isProcessing,
                 wk, sw, requests, sweeps, serial, enqueued, pool, lastSent, downstream, life>>

DrainAfterUpdate(a) ==
  /\ cpu = a
  /\ dr[a].pc = "update"
  /\ fop[a].pc = "done"
  /\ deferredChecks' = clearDeferredCheck(deferredChecks, fop[a].steamId, fop[a].checkName)
  /\ fop' = [fop EXCEPT ![a] = FopNone]
  /\ dr' = [dr EXCEPT ![a].pc = "next"]
  /\ UNCHANGED <<queue, config, now, lastApiCallTime, isProcessing,
                 wk, sw, ck, cpu, requests, sweeps, histVars, pool, lastSent, downstream, life>>

(***************************************************************************)
(* processQueue / processQueuedProfiles (index.js)                         *)
(***************************************************************************)
\* the finally block, and processQueue re-arming its timer
EndPass_NextCheck ==
  /\ wk' = [wk EXCEPT !.pc = "loop", !.i = @ + 1]
  /\ UNCHANGED <<isProcessing, cpu>>

EndPass ==
  /\ isProcessing' = FALSE
  /\ wk' = WkIdle
  /\ cpu' = "free"

\* the value the pass gives isProcessing once it is past the guard
MarkProcessing_Forgotten == FALSE

MarkProcessing == TRUE

\* the timer of processQueue fires
PassStart ==
  /\ cpu = "free"
  /\ wk.pc = "idle"
  /\ IF isProcessing
     THEN UNCHANGED <<isProcessing, wk, config, dr, fop, cpu>>
     ELSE /\ isProcessing' = MarkProcessing
          /\ IF ~areAllConnectionsInCooldown(config, now)
             THEN /\ wk' = [wk EXCEPT !.pc = "drain", !.allConnectionsInCooldown = FALSE]
                  /\ StartDrain("worker")
                  /\ UNCHANGED fop
             ELSE /\ wk' = [wk EXCEPT !.pc = "select", !.allConnectionsInCooldown = TRUE]
                  /\ config' = checkAndResetCooldowns(config, now)
                  /\ fop' = [fop EXCEPT !["worker"] = FopRead("get", 0, "", "")]
                  /\ UNCHANGED <<dr, cpu>>
  /\ UNCHANGED <<queue, now, lastApiCallTime, deferredChecks, sw, ck,
                 requests, sweeps, histVars, pool, lastSent, downstream, life>>

WorkerAfterDrain ==
  /\ cpu = "worker"
  /\ wk.pc = "drain"
  /\ dr["worker"].pc = "done"
  /\ dr' = [dr EXCEPT !["worker"] = DrNone]
  /\ wk' = [wk EXCEPT !.pc = "select"]
  /\ fop' = [fop EXCEPT !["worker"] = FopRead("get", 0, "", "")]
  /\ cpu' = "free"
  /\ UNCHANGED <<queue, config, now, lastApiCallTime, deferredChecks, isProcessing,
                 sw, ck, requests, sweeps, histVars, pool, lastSent, downstream, life>>

\* getNextProcessableProfile has read the queue
WorkerSelected ==
  /\ cpu = "worker"
  /\ wk.pc = "select"
  /\ fop["worker"].pc = "done"
  /\ LET profile == getNextProcessableProfile(fop["worker"].buf,
                                              wk.allConnectionsInCooldown)
         checksToRun == ChecksToRun(profile.checks)
     IN IF profile = NoProfile
        THEN /\ EndPass
             /\ fop' = [fop EXCEPT !["worker"] = FopNone]
        ELSE IF Len(checksToRun) = 0
        THEN \* await queueManager.getAllChecksComplete(steamId)
             /\ wk' = [wk EXCEPT !.pc = "complete", !.steamId = profile.steam_id,
                                 !.selectedComplete = AllComplete(profile.checks)]
             /\ fop' = [fop EXCEPT !["worker"] = FopRead("get", 0, "", "")]
             /\ cpu' = "free"
             /\ UNCHANGED isProcessing
        ELSE /\ wk' = [wk EXCEPT !.pc = "loop", !.steamId = profile.steam_id,
                                 !.checksToRun = checksToRun, !.i = 1]
             /\ fop' = [fop EXCEPT !["worker"] = FopNone]
             /\ UNCHANGED <<cpu, isProcessing>>
  /\ UNCHANGED <<queue, config, now, lastApiCallTime, deferredChecks,
                 sw, ck, dr, requests, sweeps, histVars, pool, lastSent, downstream, life>>

\* getAllChecksComplete has read the queue
WorkerComplete ==
  /\ cpu = "worker"
  /\ wk.pc = "complete"
  /\ fop["worker"].pc = "done"
  /\ LET profiles == fop["worker"].buf
         found == InQueue(profiles, wk.steamId)
         allComplete == found /\ AllComplete(ProfileOf(profiles, wk.steamId).checks)
         allPassed == found /\ AllPassed(ProfileOf(profiles, wk.steamId).checks)
     IN IF allComplete
        THEN IF allPassed
             THEN \* await apiService.handleNewSteamId(steamId, username)
                  /\ wk' = [wk EXCEPT !.pc = "api"]
                  /\ fop' = [fop EXCEPT !["worker"] = FopNone]
                  /\ cpu' = "free"
                  /\ UNCHANGED isProcessing
             ELSE \* some checks failed validation: remove from queue
                  /\ wk' = [wk EXCEPT !.pc = "remove1"]
                  /\ fop' = [fop EXCEPT !["worker"] = FopRead("remove", wk.steamId, "", "")]
                  /\ cpu' = "free"
                  /\ UNCHANGED isProcessing
        ELSE \* has deferred checks: processed later
             /\ EndPass
             /\ fop' = [fop EXCEPT !["worker"] = FopNone]
  /\ UNCHANGED <<queue, config, now, lastApiCallTime, deferredChecks,
                 sw, ck, dr, requests, sweeps, histVars, pool, lastSent, downstream, life>>

\* handleNewSteamId returns
WorkerApiResponse(response) ==
  /\ cpu = "free"
  /\ wk.pc = "api"
  /\ response \in ApiResponses
  /\ IF ApiSuccess(response) \/ ~isRetryableError(response)
     THEN \* lines 66 and 90: remove from queue
          /\ wk' = [wk EXCEPT !.pc = "remove1", !.apiResult = response]
          /\ resolved' = resolved \cup {wk.steamId}
     ELSE \* retryable: "Don't remove"; control reaches line 100
          /\ wk' = [wk EXCEPT !.pc = "remove2", !.apiResult = response]
          /\ UNCHANGED resolved
  /\ fop' = [fop EXCEPT !["worker"] = FopRead("remove", wk.steamId, "", "")]
  /\ downstream' = [downstream EXCEPT ![wk.steamId] = Append(@, response)]
  /\ UNCHANGED <<queue, config, now, lastApiCallTime, deferredChecks, isProcessing,
                 sw, ck, dr, cpu, requests, sweeps, serial, enqueued, failedEval, pool, lastSent, life>>

WorkerAfterRemove1 ==
  /\ cpu = "worker"
  /\ wk.pc = "remove1"
  /\ fop["worker"].pc = "done"
  \* line 100: "Remove from queue regardless of API result"
  /\ wk' = [wk EXCEPT !.pc = "remove2"]
  /\ fop' = [fop EXCEPT !["worker"] = FopRead("remove", wk.steamId, "", "")]
  /\ cpu' = "free"
  /\ UNCHANGED <<queue, config, now, lastApiCallTime, deferredChecks, isProcessing,
                 sw, ck, dr, requests, sweeps, histVars, pool, lastSent, downstream, life>>

WorkerAfterRemove2 ==
  /\ cpu = "worker"
  /\ wk.pc = "remove2"
  /\ fop["worker"].pc = "done"
  /\ EndPass
  /\ fop' = [fop EXCEPT !["worker"] = FopNone]
  /\ UNCHANGED <<queue, config, now, lastApiCallTime, deferredChecks,
                 sw, ck, dr, requests, sweeps, histVars, pool, lastSent, downstream, life>>

LoopBranch_CooldownFirst(isPrivateProfile, checkName, allConnectionsInCooldown) ==
  LET isRateLimitedCheck == checkName \in RateLimitedChecks IN
  IF isRateLimitedCheck /\ allConnectionsInCooldown THEN "deferred"
  ELSE IF isPrivateProfile /\ isRateLimitedCheck THEN "passed"
  ELSE "dispatch"

\* the two `continue` branches at the head of the check loop
LoopBranch(isPrivateProfile, checkName, allConnectionsInCooldown) ==
  LET isRateLimitedCheck == checkName \in RateLimitedChecks IN
  IF isPrivateProfile /\ isRateLimitedCheck THEN "passed"
  ELSE IF isRateLimitedCheck /\ allConnectionsInCooldown THEN "deferred"
  ELSE "dispatch"

\* head of `for (let i = 0; i < checksToRun.length; i++)`
WorkerLoop ==
  /\ cpu = "worker"
  /\ wk.pc = "loop"
  /\ IF wk.i > Len(wk.checksToRun)
     THEN /\ EndPass
          /\ UNCHANGED <<fop, ck, lastApiCallTime>>
     ELSE LET checkName == wk.checksToRun[wk.i]
              branch == LoopBranch(wk.isPrivateProfile, checkName,
                                   wk.allConnectionsInCooldown)
          IN IF branch = "dispatch"
             THEN /\ wk' = [wk EXCEPT !.pc = "check",
                                      !.dispatched = Append(@, checkName)]
                  /\ StartCheck("worker", wk.steamId, checkName)
                  /\ UNCHANGED <<fop, isProcessing>>
             ELSE /\ wk' = [wk EXCEPT !.pc = "update"]
                  /\ fop' = [fop EXCEPT !["worker"] =
                               FopRead("update", wk.steamId, checkName, branch)]
                  /\ cpu' = "free"
                  /\ UNCHANGED <<ck, lastApiCallTime, isProcessing>>
  /\ UNCHANGED <<queue, config, now, deferredChecks, sw, dr, requests, sweeps, histVars, pool, lastSent, downstream, life>>

\* "Handle check result"
WorkerAfterCheck ==
  /\ cpu = "worker"
  /\ wk.pc = "check"
  /\ ck["worker"].pc = "done"
  /\ ck' = [ck EXCEPT !["worker"] = CkNone]
  /\ LET result == ck["worker"].result
         checkName == ck["worker"].checkName
     IN IF result = "deferred"
        THEN /\ wk' = [wk EXCEPT !.pc = "update"]
             /\ fop' = [fop EXCEPT !["worker"] =
                          FopRead("update", wk.steamId, checkName, "deferred")]
             /\ cpu' = "free"
             /\ UNCHANGED <<isProcessing, failedEval, resolved>>
        ELSE IF result = "error"
        THEN \* break: retried in the next processing cycle
             /\ EndPass
             /\ UNCHANGED <<fop, failedEval, resolved>>
        ELSE IF result = "failed"
        THEN /\ wk' = [wk EXCEPT !.pc = "removeFailed"]
             /\ fop' = [fop EXCEPT !["worker"] = FopRead("remove", wk.steamId, "", "")]
             /\ cpu' = "free"
             /\ failedEval' = failedEval \cup {wk.steamId}
             /\ resolved' = resolved \cup {wk.steamId}
             /\ UNCHANGED isProcessing
        ELSE \* passed; an empty steam_level answer also marks the profile private
             /\ wk' = [wk EXCEPT !.pc = "update",
                                 !.isPrivateProfile = @ \/ result = "private"]
             /\ fop' = [fop EXCEPT !["worker"] =
                          FopRead("update", wk.steamId, checkName, "passed")]
             /\ cpu' = "free"
             /\ UNCHANGED <<isProcessing, failedEval, resolved>>
  /\ UNCHANGED <<queue, config, now, lastApiCallTime, deferredChecks,
                 sw, dr, requests, sweeps, serial, enqueued, pool, lastSent, downstream, life>>

WorkerAfterUpdate_Break ==
  /\ cpu = "worker"
  /\ wk.pc = "update"
  /\ fop["worker"].pc = "done"
  /\ fop' = [fop EXCEPT !["worker"] = FopNone]
  /\ EndPass
  /\ UNCHANGED <<queue, config, now, lastApiCallTime, deferredChecks,
                 sw, ck, dr, requests, sweeps, histVars, pool, lastSent, downstream, life>>

WorkerAfterUpdate ==
  /\ cpu = "worker"
  /\ wk.pc = "update"
  /\ fop["worker"].pc = "done"
  /\ fop' = [fop EXCEPT !["worker"] = FopNone]
  /\ wk' = [wk EXCEPT !.pc = "loop", !.i = @ + 1]
  /\ UNCHANGED <<queue, config, now, lastApiCallTime, deferredChecks, isProcessing,
                 sw, ck, dr, cpu, requests, sweeps, histVars, pool, lastSent, downstream, life>>

WorkerAfterRemoveFailed ==
  /\ cpu = "worker"
  /\ wk.pc = "removeFailed"
  /\ fop["worker"].pc = "done"
  /\ EndPass
  /\ fop' = [fop EXCEPT !["worker"] = FopNone]
  /\ UNCHANGED <<queue, config, now, lastApiCallTime, deferredChecks,
                 sw, ck, dr, requests, sweeps, histVars, pool, lastSent, downstream, life>>

(***************************************************************************)
(* checkProxyStatus (index.js), the 60 s timer                             *)
(***************************************************************************)
\* "Process any deferred checks if connections are available"
SweepDrainOrEnd ==
  IF sw.availableConnections > 0 /\ Len(deferredChecks) > 0
  THEN /\ sw' = [sw EXCEPT !.pc = "drain"]
       /\ StartDrain("sweep")
  ELSE /\ sw' = SwIdle
       /\ cpu' = "free"
       /\ UNCHANGED <<config, dr>>

SweepStart ==
  /\ cpu = "free"
  /\ sw.pc = "idle"
  /\ sweeps < MaxSweeps
  /\ sweeps' = sweeps + 1
  \* status = steamValidator.getProxyStatus()
  /\ config' = checkAndResetCooldowns(config, now)
  /\ sw' = [SwIdle EXCEPT !.pc = "stats",
                         !.availableConnections = availableConnections(config, now)]
  \* await queueManager.getDeferredCheckStats()
  /\ fop' = [fop EXCEPT !["sweep"] = FopRead("get", 0, "", "")]
  /\ UNCHANGED <<queue, now, lastApiCallTime, deferredChecks, isProcessing,
                 wk, ck, dr, cpu, requests, histVars, pool, lastSent, downstream, life>>

\* getDeferredCheckStats has read the queue
SweepStats ==
  /\ cpu = "sweep"
  /\ sw.pc = "stats"
  /\ fop["sweep"].pc = "done"
  \* deferredStats.totalDeferred > 0
  /\ sw' = [sw EXCEPT !.pc = "queueStats",
                      !.totalDeferred = HasDeferred(fop["sweep"].buf)]
  \* await queueManager.getQueueStats()
  /\ fop' = [fop EXCEPT !["sweep"] = FopRead("get", 0, "", "")]
  /\ cpu' = "free"
  /\ UNCHANGED <<queue, config, now, lastApiCallTime, deferredChecks, isProcessing,
                 wk, ck, dr, requests, sweeps, histVars, pool, lastSent, downstream, life>>

\* getQueueStats has read the queue
SweepQueueStats ==
  /\ cpu = "sweep"
  /\ sw.pc = "queueStats"
  /\ fop["sweep"].pc = "done"
  /\ IF sw.availableConnections > 0 /\ sw.totalDeferred
     THEN \* await queueManager.convertDeferredChecksToToCheck()
          /\ sw' = [sw EXCEPT !.pc = "convert"]
          /\ fop' = [fop EXCEPT !["sweep"] = FopRead("convert", 0, "", "")]
          /\ cpu' = "free"
          /\ UNCHANGED <<config, dr>>
     ELSE /\ fop' = [fop EXCEPT !["sweep"] = FopNone]
          /\ SweepDrainOrEnd
  /\ UNCHANGED <<queue, now, lastApiCallTime, deferredChecks, isProcessing,
                 wk, ck, requests, sweeps, histVars, pool, lastSent, downstream, life>>

SweepAfterConvert ==
  /\ cpu = "sweep"
  /\ sw.pc = "convert"
  /\ fop["sweep"].pc = "done"
  /\ fop' = [fop EXCEPT !["sweep"] = FopNone]
  /\ SweepDrainOrEnd
  /\ UNCHANGED <<queue, now, lastApiCallTime, deferredChecks, isProcessing,
                 wk, ck, requests, sweeps, histVars, pool, lastSent, downstream, life>>

SweepAfterDrain ==
  /\ cpu = "sweep"
  /\ sw.pc = "drain"
  /\ dr["sweep"].pc = "done"
  /\ dr' = [dr EXCEPT !["sweep"] = DrNone]
  /\ sw' = SwIdle
  /\ cpu' = "free"
  /\ UNCHANGED <<queue, config, now, lastApiCallTime, deferredChecks, isProcessing,
                 wk, fop, ck, requests, sweeps, histVars, pool, lastSent, downstream, life>>

(***************************************************************************)
(* The clock.  A short tick lets a sleeper of the rate gate wake up; a     *)
(* long tick is the shortest cooldown of the pool.                         *)
(***************************************************************************)
LongTickMs == 5 * 60 * 1000

ShortTicksTaken == ((now - minApiCallInterval) % LongTickMs) \div minApiCallInterval
LongTicksTaken == (now - minApiCallInterval) \div LongTickMs

ShortTick ==
  /\ cpu = "free"
  /\ \E a \in Callers : ck[a].pc = "gate" /\ now < ck[a].wakeAt
  /\ ShortTicksTaken < MaxShortTicks
  /\ now' = now + minApiCallInterval
  /\ UNCHANGED <<queue, config, lastApiCallTime, deferredChecks, isProcessing,
                 wk, sw, fop, ck, dr, cpu, requests, sweeps, histVars, pool, lastSent, downstream, life>>

LongTick ==
  /\ cpu = "free"
  /\ LongTicksTaken < MaxLongTicks
  /\ now' = now + LongTickMs
  /\ UNCHANGED <<queue, config, lastApiCallTime, deferredChecks, isProcessing,
                 wk, sw, fop, ck, dr, cpu, requests, sweeps, histVars, pool, lastSent, downstream, life>>

(***************************************************************************)
(* The whole service                                                       *)
(***************************************************************************)
Next ==
  \/ \E a \in Activities : FileRead(a)
  \/ \E a \in Activities : FileWrite(a)
  \/ \E a \in Ingress, answer \in ExistsResponses : ExistsDone(a, answer)
  \/ \E a \in Ingress, steamId \in Ids : IngressStart(a, steamId)
  \/ \E a \in Ingress : IngressDone(a)
  \/ \E a \in Callers : GateWake(a)
  \/ \E a \in Callers : SendRequest(a)
  \/ \E a \in Callers, response \in {"pass", "fail", "empty", "401", "error", "429", "connection_error"} :
       Response(a, response)
  \/ \E a \in Callers, errorType \in CooldownErrors : ErrorResponse(a, errorType)
  \/ \E a \in Callers : DrainNext(a)
  \/ \E a \in Callers : DrainAfterCheck(a)
  \/ \E a \in Callers : DrainAfterUpdate(a)
  \/ PassStart
  \/ WorkerAfterDrain
  \/ WorkerSelected
  \/ WorkerComplete
  \/ \E response \in ApiResponses : WorkerApiResponse(response)
  \/ WorkerAfterRemove1
  \/ WorkerAfterRemove2
  \/ WorkerLoop
  \/ WorkerAfterCheck
  \/ WorkerAfterUpdate
  \/ WorkerAfterRemoveFailed
  \/ SweepStart
  \/ SweepStats
  \/ SweepQueueStats
  \/ SweepAfterConvert
  \/ SweepAfterDrain
  \/ ShortTick
  \/ LongTick

Spec == Init /\ [][Next]_vars

(***************************************************************************)
(* getNextProcessableProfile as a function of the queue and the flag       *)
(***************************************************************************)
\* checks objects with at most one profile-asset check not passed
SelChecks ==
  { [k \in 1..Len(CanonicalOrder) |->
       [name |-> CanonicalOrder[k],
        status |-> IF k = odd THEN s ELSE IF k = 6 THEN f ELSE IF k = 7 THEN c
                   ELSE "passed"]] :
    odd \in 0..5, s \in validStatuses \ {"passed"}, f \in validStatuses, c \in validStatuses }

InitSelect ==
  /\ \E n \in 0..MaxSelLen : \E cs \in [1..n -> SelChecks] :
       queue = [k \in 1..n |-> [steam_id |-> k, checks |-> cs[k]]]
  /\ serial = queue
  /\ enqueued = {}
  /\ InitCommon

\* the arguments of one call
SelectCall(allConnectionsInCooldown) ==
  /\ wk.pc = "idle"
  /\ wk' = [wk EXCEPT !.pc = "select", !.allConnectionsInCooldown = allConnectionsInCooldown]
  /\ UNCHANGED <<queue, config, now, lastApiCallTime, deferredChecks, isProcessing,
                 sw, fop, ck, dr, cpu, requests, sweeps, histVars, pool, lastSent, downstream, life>>

\* the call returns: the selected profile is kept in the worker's read buffer
SelectReturn ==
  /\ wk.pc = "select"
  /\ wk' = [wk EXCEPT !.pc = "selected"]
  /\ fop' = [fop EXCEPT !["worker"].buf =
               <<getNextProcessableProfile(queue, wk.allConnectionsInCooldown)>>]
  /\ UNCHANGED <<queue, config, now, lastApiCallTime, deferredChecks, isProcessing,
                 sw, ck, dr, cpu, requests, sweeps, histVars, pool, lastSent, downstream, life>>

NextSelect ==
  \/ \E allConnectionsInCooldown \in BOOLEAN : SelectCall(allConnectionsInCooldown)
  \/ SelectReturn

SpecSelect == InitSelect /\ [][NextSelect]_vars

(***************************************************************************)
(* The connection pool by itself: a ProxyManager constructed over a config *)
(* file, then any sequence of its calls with the clock advancing between   *)
(* them, and the error path of makeApiRequest over it.                     *)
(***************************************************************************)
\* the longest connection list of a loaded config file
MaxConns == 2

\* clock advances of a pool run
MaxPoolTicks == 2

\* calls of a pool run that stamp a cooldown or change the connection list
MaxPoolCalls == 2

PoolUrls == {"socks5://a", "socks5://b"}

\* entries of a config file: direct, socks5, and a type ensureConfigStructure drops
FileEntries ==
  {NewConnection("direct", NoUrl), NewConnection("http", "http://p")}
    \cup {NewConnection("socks5", "socks5://a")}

\* the clock advances of a pool run: 5 minutes and 6 hours
PoolSteps == {LongTickMs, 72 * LongTickMs}

ErrorTypes == CooldownErrors \cup {"unknown"}
PoolEndpoints == {"friends", "inventory"}

\* connection k (1-based) carries a stamp that has not expired at time t
Cooled(stamps, k, t) == stamps[k] # Null /\ t < stamps[k]

NotCooled(stamps, t) == {k - 1 : k \in {j \in 1..Len(stamps) : ~Cooled(stamps, j, t)}}

\* the frame of a call, which starts a new round of rotations
PoolCall(call, args, ret, stamps) ==
  [call |-> call, from |-> config.current_index,
   before |-> config.connections, args |-> args, ret |-> ret, stamps |-> stamps,
   rotations |-> 0, missed |-> NotCooled(stamps, now), ticks |-> pool.ticks,
   calls |-> pool.calls + 1]

\* the frame of a call that leaves the round of rotations as it is
PoolRead(call, ret) ==
  [pool EXCEPT !.call = call, !.from = config.current_index,
               !.before = << >>, !.args = << >>, !.ret = ret]

PoolFrame ==
  /\ pool'.calls <= MaxPoolCalls
  /\ UNCHANGED <<queue, now, lastApiCallTime, deferredChecks, isProcessing,
              wk, sw, fop, ck, dr, cpu, requests, sweeps, histVars, lastSent, downstream, life>>

\* new ProxyManager(configDir) over an existing config file
InitPool ==
  /\ \E n \in 0..MaxConns : \E file \in [1..n -> FileEntries] :
       \E current_index \in {Missing, 0} :
         \E cooldown_duration_ms \in {Missing, DEFAULT_COOLDOWN_DURATION} :
           config = ensureConfigStructure(
                      [connections |-> file, current_index |-> current_index,
                       cooldown_duration_ms |-> cooldown_duration_ms])
  /\ queue = << >>
  /\ serial = queue
  /\ enqueued = {}
  /\ now = minApiCallInterval
  /\ lastApiCallTime = 0
  /\ deferredChecks = << >>
  /\ isProcessing = FALSE
  /\ wk = WkIdle
  /\ sw = SwIdle
  /\ fop = [a \in Activities |-> FopNone]
  /\ ck = [a \in Callers |-> CkNone]
  /\ dr = [a \in Callers |-> DrNone]
  /\ cpu = "free"
  /\ requests = 0
  /\ sweeps = 0
  /\ resolved = {}
  /\ failedEval = {}
  /\ lastSent = 0
  /\ downstream = [steamId \in Ids |-> << >>]
  /\ life = LifeRunning
  /\ pool = [PoolNone EXCEPT !.call = "load",
                             !.stamps = [k \in 1..Len(config.connections) |-> Null],
                             !.missed = {k - 1 : k \in 1..Len(config.connections)}]

PoolTick(d) ==
  /\ pool.ticks < MaxPoolTicks
  /\ now' = now + d
  /\ pool' = [pool EXCEPT !.call = "none", !.from = 0, !.before = << >>,
                          !.args = << >>, !.ret = << >>, !.ticks = @ + 1]
  /\ UNCHANGED <<queue, config, lastApiCallTime, deferredChecks, isProcessing,
                 wk, sw, fop, ck, dr, cpu, requests, sweeps, histVars, lastSent, downstream, life>>

\* current(): getCurrentConnection
PoolCurrent ==
  \E cur \in {getCurrentConnection(config, now)} :
  /\ config' = cur.config
  /\ pool' = PoolRead("current",
                      [index |-> cur.index, allInCooldown |-> cur.allInCooldown,
                       in_cooldown |-> ConnAt(cur.config, cur.index).in_cooldown])
  /\ PoolFrame

\* one rotation, getNextAvailableConnection, and the current() that follows it
PoolRotate ==
  /\ \E nextConn \in {getNextAvailableConnection(config, now)} :
     \E cur \in {getCurrentConnection(nextConn.config, now)} :
       /\ config' = cur.config
       /\ pool' = [PoolRead("rotate",
                            [index |-> nextConn.index,
                             allInCooldown |-> nextConn.allInCooldown,
                             earliestAvailable |-> nextConn.earliestAvailable,
                             current |-> cur.index])
                    EXCEPT !.rotations = IF @ < Len(config.connections) THEN @ + 1 ELSE @,
                           !.missed = @ \ {cur.index}]
  /\ PoolFrame

\* mark_current_cooldown: markCurrentAsCooldown
PoolMark(errorType, endpoint) ==
  \E marked \in {markCurrentAsCooldown(config, errorType, endpoint, now)} :
  LET stamps == [pool.stamps EXCEPT ![config.current_index + 1] =
                   now + CooldownDuration(config, errorType, endpoint)]
  IN /\ config' = marked.config
     /\ pool' = PoolCall("mark", <<errorType, endpoint>>,
                         [index |-> marked.index, allInCooldown |-> marked.allInCooldown,
                          earliestAvailable |-> marked.earliestAvailable],
                         stamps)
     /\ PoolFrame

\* all_in_cooldown(): areAllConnectionsInCooldown
PoolAllInCooldown ==
  /\ config' = checkAndResetCooldowns(config, now)
  /\ pool' = PoolRead("all", [all |-> areAllConnectionsInCooldown(config, now)])
  /\ PoolFrame

\* status(): getConnectionStatus
PoolStatus ==
  \E status \in {getConnectionStatus(config, now)} :
  /\ config' = status.config
  /\ pool' = PoolRead("status", [f \in DOMAIN status \ {"config"} |-> status[f]])
  /\ PoolFrame

PoolAdd(proxyUrl) ==
  LET added == addSocks5Proxy(config, proxyUrl) IN
  /\ added # config
  /\ config' = added
  /\ pool' = [PoolCall("add", <<proxyUrl>>, << >>, Append(pool.stamps, Null))
               EXCEPT !.before = << >>]
  /\ PoolFrame

PoolRemove(proxyUrl) ==
  LET removed == removeSocks5Proxy(config, proxyUrl)
      kept == KeptBy(config.connections, proxyUrl)
      \* the stamps of the connections kept, in their order
      stamps == [k \in 1..Cardinality(kept) |->
                   pool.stamps[CHOOSE j \in kept :
                                 Cardinality({i \in kept : i <= j}) = k]]
  IN /\ removed # config
     /\ config' = removed
     /\ pool' = [PoolCall("remove", <<proxyUrl>>, << >>, stamps)
                  EXCEPT !.before = << >>]
     /\ PoolFrame

\* retryWithNextConnection up to its decision: retry the request or defer
retryWithNextConnection(config0, t) ==
  LET status == getConnectionStatus(config0, t)
      nextConn == getNextAvailableConnection(status.config, t)
  IN IF status.availableConnections > 0 /\ ~nextConn.allInCooldown
     THEN [config |-> nextConn.config, retry |-> TRUE, nextAvailableIn |-> Null]
     ELSE [config |-> status.config, retry |-> FALSE,
           nextAvailableIn |-> status.nextAvailableIn]

\* The request that createAxiosInstance sent through the current connection
\* fails with a cooldown error: the catch block of makeApiRequest marks the
\* connection, and retryWithNextConnection either calls makeApiRequest again,
\* whose createAxiosInstance picks the connection of the retry, or defers.
PoolError(errorType, endpoint) ==
  /\ pool.call = "current"
  /\ ~pool.ret.allInCooldown
  /\ errorType \in CooldownErrors
  /\ \E marked \in {markCurrentAsCooldown(config, errorType, endpoint, now)} :
     \E retried \in {retryWithNextConnection(marked.config, now)} :
     \E cur \in {getCurrentConnection(retried.config, now)} :
       /\ config' = IF retried.retry THEN cur.config ELSE retried.config
       /\ pool' = PoolCall("error", <<errorType, endpoint>>,
                           [index |-> marked.index, allInCooldown |-> marked.allInCooldown,
                            retry |-> retried.retry,
                            via |-> IF retried.retry THEN cur.index ELSE Missing,
                            nextAvailableIn |-> retried.nextAvailableIn],
                           [pool.stamps EXCEPT ![config.current_index + 1] =
                              now + CooldownDuration(config, errorType, endpoint)])
  /\ PoolFrame

NextPool ==
  \/ \E d \in PoolSteps : PoolTick(d)
  \/ PoolCurrent
  \/ PoolRotate
  \/ \E errorType \in ErrorTypes, endpoint \in PoolEndpoints : PoolMark(errorType, endpoint)
  \/ PoolAllInCooldown
  \/ PoolStatus
  \/ \E proxyUrl \in PoolUrls : PoolAdd(proxyUrl)
  \/ \E proxyUrl \in PoolUrls : PoolRemove(proxyUrl)
  \/ \E errorType \in CooldownErrors, endpoint \in PoolEndpoints :
       PoolError(errorType, endpoint)

SpecPool == InitPool /\ [][NextPool]_vars

(***************************************************************************)
(* Properties                                                              *)
(***************************************************************************)
IsPrefix(s, t) == Len(s) <= Len(t) /\ \A k \in 1..Len(s) : s[k] = t[k]

StatusIn(profiles, steamId, checkName) ==
  CheckStatus(ProfileOf(profiles, steamId).checks, checkName)

C2_QueuePersistence ==
  \A steamId \in enqueued : InQueue(queue, steamId) \/ steamId \in resolved

\* the pass has ended after a retryable downstream failure, no queue operation
\* was ever interleaved with another, and the item is gone unresolved
C2_Witness ==
  /\ queue = serial
  /\ requests = 0
  /\ wk.pc = "idle"
  /\ \E steamId \in enqueued : ~InQueue(queue, steamId) /\ steamId \notin resolved

\* C3: downstream retry.  When the pass that got a retryable failure of the
\* downstream write ends, the item is still in the queue with all checks
\* passed.
C3_DownstreamRetry ==
  [][ (/\ wk.pc = "remove2"
       /\ isRetryableError(wk.apiResult)
       /\ wk'.pc = "idle")
      => /\ InQueue(queue', wk.steamId)
         /\ AllPassed(ProfileOf(queue', wk.steamId).checks) ]_vars

\* the removal of line 100 is about to rewrite the file after a retryable failure
C3_Witness ==
  /\ wk.pc = "remove2"
  /\ isRetryableError(wk.apiResult)
  /\ fop["worker"].pc = "write"
  /\ ~InQueue(fop["worker"].buf, wk.steamId)

\* the arcs of the partial order of check statuses
AllowedArc(from, to) ==
  \/ from = to
  \/ from = "to_check" /\ to \in {"passed", "failed", "deferred"}
  \/ from = "deferred" /\ to = "to_check"

\* C4: check monotonicity.  For an item that stays in the queue, a persisted
\* check status changes only along to_check -> passed | failed | deferred and
\* deferred -> to_check.
C4_CheckMonotonicity ==
  [][ \A steamId \in Ids :
        (InQueue(queue, steamId) /\ InQueue(queue', steamId))
        => \A k \in 1..Len(CanonicalOrder) :
             AllowedArc(StatusIn(queue, steamId, CanonicalOrder[k]),
                        StatusIn(queue', steamId, CanonicalOrder[k])) ]_vars

\* the deferred drain is about to write a result over a deferred status, with
\* the file exactly as a serial execution leaves it
C4_Witness ==
  \E a \in Callers :
    /\ dr[a].pc = "update"
    /\ fop[a].pc = "write"
    /\ queue = serial
    /\ StatusIn(queue, fop[a].steamId, fop[a].checkName) = "deferred"
    /\ fop[a].status \in {"passed", "failed"}

\* C5: queue mutations are serialized.  The queue file equals the result of
\* applying the operations one after the other, each in one piece, in the
\* order in which they complete.
C5_Serialized == queue = serial

\* an enqueue has written back what it read before the worker removed an
\* item: the removed item is in the file again
C5_Witness ==
  \E steamId \in Ids : InQueue(queue, steamId) /\ ~InQueue(serial, steamId)

\* C6: canonical order.  The check names the pass has dispatched from its
\* check loop form a prefix of the canonical order filtered to the checks that
\* were to_check when the item was selected.
C6_CanonicalOrder ==
  IsPrefix(wk.dispatched,
           SelectSeq(CanonicalOrder, LAMBDA name : name \in Range(wk.checksToRun)))

\* a pass that dispatches friends and then csgo_inventory for the item of the
\* one-item start-up queue, whose steam_level was passed by an earlier pass
C6_Witness ==
  /\ wk.dispatched = <<"friends", "csgo_inventory">>
  /\ wk.checksToRun = <<"friends", "csgo_inventory">>
  /\ enqueued = {1}
  /\ requests = 0
  /\ now > minApiCallInterval

\* C7: private-profile short-circuit.  Once steam_level has returned the
\* private marker in a pass, the pass makes no outbound call for friends or
\* csgo_inventory, and the queue update it issues for such a check writes
\* passed, also when the pass found every connection in cooldown.
C7_PrivateShortCircuit ==
  wk.isPrivateProfile =>
    /\ ck["worker"].pc # "none" => ck["worker"].checkName \notin RateLimitedChecks
    /\ (wk.pc = "update" /\ fop["worker"].checkName \in RateLimitedChecks)
         => /\ fop["worker"].kind = "update"
            /\ fop["worker"].steamId = wk.steamId
            /\ fop["worker"].status = "passed"
            /\ fop["worker"].pc = "done" /\ fop["worker"].ret
                 => StatusIn(queue, wk.steamId, fop["worker"].checkName) = "passed"

\* a rate-limited check of a private profile has been written passed by a pass
\* that started with every connection in cooldown
C7_Witness ==
  /\ wk.isPrivateProfile
  /\ wk.allConnectionsInCooldown
  /\ wk.pc = "update"
  /\ fop["worker"].checkName \in RateLimitedChecks
  /\ fop["worker"].pc = "done"
  /\ fop["worker"].ret
  /\ StatusIn(queue, wk.steamId, fop["worker"].checkName) = "passed"

\* the reference selection
HasAssetToCheck(profile) ==
  \E k \in 1..Len(profile.checks) :
     /\ profile.checks[k].name \notin RateLimitedChecks
     /\ profile.checks[k].status = "to_check"

ReferenceSelection(profiles, all_pool_in_cooldown) ==
  IF profiles = << >> THEN NoProfile
  ELSE LET H == profiles[1]
           has_tocheck == \E k \in 1..Len(H.checks) : H.checks[k].status = "to_check"
           has_deferred == \E k \in 1..Len(H.checks) : H.checks[k].status = "deferred"
           candidates == {k \in 1..Len(profiles) : HasAssetToCheck(profiles[k])}
       IN IF ~has_tocheck /\ ~has_deferred THEN H
          ELSE IF ~all_pool_in_cooldown THEN H
          ELSE IF candidates = {} THEN NoProfile
          ELSE profiles[CHOOSE k \in candidates : \A j \in candidates : k <= j]

\* C8: getNextProcessableProfile returns the reference selection for every
\* queue and flag; a non-head item is returned only when the flag is true and
\* the head has no profile-asset check in to_check.
C8_ReferenceSelection ==
  wk.pc = "selected" =>
    LET selected == fop["worker"].buf[1] IN
    /\ selected = ReferenceSelection(queue, wk.allConnectionsInCooldown)
    /\ (selected # NoProfile /\ selected # queue[1])
         => wk.allConnectionsInCooldown /\ ~HasAssetToCheck(queue[1])

\* the call returned the second item of the queue
C8_Witness ==
  /\ wk.pc = "selected"
  /\ Len(queue) = 2
  /\ fop["worker"].buf[1] = queue[2]
  /\ queue[1] # queue[2]

\* C9: the downstream write is invoked for an item only when all seven of its
\* checks are passed in the queue, and never for an item one of whose checks
\* evaluated to failed.
C9_DownstreamWrite ==
  [][ (wk.pc # "api" /\ wk'.pc = "api")
      => /\ InQueue(queue, wk'.steamId)
         /\ AllPassed(ProfileOf(queue, wk'.steamId).checks)
         /\ wk'.steamId \notin failedEval ]_vars

\* the downstream write is in progress for an item a check of which had
\* evaluated to failed
C9_Witness ==
  /\ wk.pc = "api"
  /\ wk.steamId \in failedEval

\* C10: an item with a check recorded failed is removed without any further
\* check: no check call is in progress for an item that is in the queue with
\* a check in status failed.
C10_FailedRemoves ==
  \A a \in Callers :
    ck[a].pc # "none"
    => ~(/\ InQueue(queue, ck[a].steamId)
         /\ SomeStatus(ProfileOf(queue, ck[a].steamId).checks, "failed"))

\* the deferred drain has recorded failed, left the item in the queue and
\* gone on to call the item's next deferred check, with the file exactly as a
\* serial execution leaves it
C10_Witness ==
  \E a \in Callers :
    /\ dr[a].pc = "check"
    /\ ck[a].pc # "none"
    /\ queue = serial
    /\ InQueue(queue, ck[a].steamId)
    /\ SomeStatus(ProfileOf(queue, ck[a].steamId).checks, "failed")

\* C11: cooldown expiry.  A connection whose latest stamp was made at time t
\* with duration d is reported in cooldown by status(), all_in_cooldown() and
\* current() at every time before t + d, and reported not in cooldown by them
\* at t + d and at every later time; a connection never stamped is reported
\* not in cooldown.
C11_CooldownExpiry ==
  /\ pool.call = "status"
       => \A k \in 1..Len(pool.stamps) :
             (pool.ret.connections[k] = "cooldown") <=> Cooled(pool.stamps, k, now)
  /\ pool.call = "all"
       => (pool.ret.all <=> \A k \in 1..Len(pool.stamps) : Cooled(pool.stamps, k, now))
  /\ pool.call = "current"
       => (pool.ret.in_cooldown <=> Cooled(pool.stamps, pool.ret.index + 1, now))

\* status() called at the very instant one cooldown ends while another lasts
C11_Witness ==
  /\ pool.call = "status"
  /\ \E k, j \in 1..Len(pool.stamps) :
       /\ pool.stamps[k] = now
       /\ pool.ret.connections[k] = "available"
       /\ pool.stamps[j] > now
       /\ pool.ret.connections[j] = "cooldown"

\* the rotation the pool is specified to make from index `from` at time t,
\* over the stamps: the first of from+1 .. from+N (mod N) that is not cooled,
\* or, all being cooled, a connection of earliest expiry, flagged, with that
\* expiry as earliestAvailable
IsRotationResult(ret, stamps, from, t) ==
  LET n == Len(stamps)
      order(a) == (from + a) % n
      avail == {a \in 1..n : ~Cooled(stamps, order(a) + 1, t)}
  IN IF avail # {}
     THEN /\ ~ret.allInCooldown
          /\ \E a \in avail : /\ \A b \in avail : a <= b
                               /\ ret.index = order(a)
     ELSE /\ ret.allInCooldown
          /\ \A k \in 1..n : stamps[ret.index + 1] <= stamps[k]
          /\ ret.earliestAvailable = stamps[ret.index + 1]

\* the cooldown matrix as specified, in milliseconds
SpecifiedDuration(errorType, endpoint) ==
  IF errorType = "429" /\ endpoint = "friends" THEN 300000
  ELSE IF errorType = "429" /\ endpoint = "inventory" THEN 21900000
  ELSE IF errorType = "connection_error" THEN 600000
  ELSE IF errorType = "socks_error" THEN 900000
  ELSE 600000

\* mark_current_cooldown stamps the current connection by the matrix and
\* returns the rotation made from it
MarkStampsCurrent ==
  /\ ConnAt(config, pool.from).in_cooldown
  /\ ConnAt(config, pool.from).cooldown_until
       = now + SpecifiedDuration(pool.args[1], pool.args[2])
  /\ IsRotationResult(pool.ret, pool.stamps, pool.from, now)
  /\ config.current_index = pool.ret.index

\* C12 as amended: mark_current_cooldown stamps the current connection with
\* cooldown_until = now + duration by the matrix and returns the result of the
\* rotation; every other connection keeps its cooldown fields, except that
\* the rotation clears those whose cooldown_until has passed.
C12_MarkStamps ==
  pool.call = "mark"
    => /\ MarkStampsCurrent
       /\ \A k \in 1..Len(pool.before) :
            k # pool.from + 1
              => config.connections[k] =
                   IF pool.before[k].in_cooldown /\ pool.before[k].cooldown_until <= now
                   THEN [pool.before[k] EXCEPT !.in_cooldown = FALSE,
                                               !.cooldown_until = Null]
                   ELSE pool.before[k]

\* a mark made when the cooldown of another connection has passed unobserved
C12_Witness ==
  /\ pool.call = "mark"
  /\ \E k \in 1..Len(pool.before) :
       /\ k # pool.from + 1
       /\ pool.before[k].in_cooldown
       /\ ~config.connections[k].in_cooldown

\* C12 as stated: mark_current_cooldown stamps the current connection by the
\* matrix, returns the result of the rotation, and leaves the cooldown fields
\* of every other connection unchanged.
C12_OthersUnchanged ==
  pool.call = "mark"
    => /\ MarkStampsCurrent
       /\ \A k \in 1..Len(pool.before) :
            k # pool.from + 1 => config.connections[k] = pool.before[k]

\* C13: rotate_to_next_available() examines the indices current_index + 1 ..
\* current_index + N (mod N) in order, moves current_index to the first whose
\* connection is not in cooldown and returns that connection; when all are
\* cooled it moves current_index to a connection of earliest cooldown_until
\* and returns it flagged all_in_cooldown, with earliest_available_at equal to
\* that cooldown_until.
C13_RotateToNext ==
  pool.call = "rotate"
    => /\ IsRotationResult(pool.ret, pool.stamps, pool.from, now)
       /\ config.current_index = pool.ret.index

\* a rotation that passes over a cooled connection to reach the next free one
C13_Witness ==
  /\ pool.call = "rotate"
  /\ ~pool.ret.allInCooldown
  /\ Len(pool.stamps) >= 3
  /\ Cooled(pool.stamps, ((pool.from + 1) % Len(pool.stamps)) + 1, now)
  /\ pool.ret.index = (pool.from + 2) % Len(pool.stamps)

\* C14: after a cooldown error on the connection a request went through,
\* mark_current_cooldown is called; when it returns a connection that is not
\* cooled the same call is retried and the request of the retry goes through
\* exactly that connection; when it reports all_in_cooldown the client defers,
\* with the time until the next connection is free, and sends nothing more.
C14_RetryThroughRotated ==
  pool.call = "error"
    => IF pool.ret.allInCooldown
       THEN /\ ~pool.ret.retry
            /\ pool.ret.nextAvailableIn # Null
       ELSE /\ pool.ret.retry
            /\ pool.ret.via = pool.ret.index

\* an error answered by a retry while two other connections are free
C14_Witness ==
  /\ pool.call = "error"
  /\ pool.ret.retry
  /\ Cardinality(NotCooled(pool.stamps, now)) >= 2

\* C15: rotation is fair.  While no cooldown is stamped and the list is not
\* changed, N successive rotations make current() return every connection
\* that was not cooled when they began, and a rotation made while some
\* connection is not cooled never makes current() return a cooled one.
C15_FairRotation ==
  /\ pool.rotations >= Len(pool.stamps) => pool.missed = {}
  /\ pool.call = "rotate" /\ NotCooled(pool.stamps, now) # {}
       => ~Cooled(pool.stamps, pool.ret.current + 1, now)

\* a full rotation of a pool of three or more with one connection cooled throughout
C15_Witness ==
  /\ pool.call = "rotate"
  /\ Len(pool.stamps) >= 3
  /\ pool.rotations = Len(pool.stamps)
  /\ \E k \in 1..Len(pool.stamps) : Cooled(pool.stamps, k, now)
  /\ Cardinality(NotCooled(pool.stamps, now)) >= 2

\* C16: the rate gate.  Whenever a request leaves the validation client,
\* whichever caller sends it, at least minApiCallInterval milliseconds have
\* passed since the previous request left.
C16_RateGate ==
  [][ \A a \in Callers :
        ck[a].pc = "send" /\ ck'[a].pc = "inflight"
          => lastSent = 0 \/ now - lastSent >= minApiCallInterval ]_vars

\* the pass and the drain of the sweep both have a request in flight
C16_Witness ==
  /\ ck["worker"].pc = "inflight"
  /\ ck["sweep"].pc = "inflight"
  /\ lastSent = now

\* C19: current_index of the pool and the last-call timestamp of the rate
\* limiter change only in steps of a check call made by the worker within a
\* processing pass; no step of the periodic sweep changes them.
C19_WorkerOnlyMutates ==
  [][ lastApiCallTime' # lastApiCallTime \/ config'.current_index # config.current_index
        => /\ ck'["worker"] # ck["worker"]
           /\ ck'["sweep"] = ck["sweep"]
           /\ isProcessing ]_vars

\* a check call of the sweep has passed the rate gate while no pass is running
C19_Witness ==
  /\ ck["sweep"].pc = "inflight"
  /\ lastApiCallTime = now
  /\ wk.pc = "idle"
  /\ ~isProcessing

\* the queue file is written by activity a in this step
WrittenBy(a) == fop[a].pc = "write" /\ fop'[a].pc = "done"

\* C20: the processing pass is the sole writer of check results.  A write of
\* the queue file by anything but the worker sets no check to passed, failed
\* or deferred, and a write by ingress leaves every item already in the queue
\* as it was.
C20_PassSoleWriter ==
  [][ \A a \in Activities \ {"worker"} :
        WrittenBy(a)
          => /\ \A steamId \in Ids : \A k \in 1..Len(CanonicalOrder) :
                  InQueue(queue', steamId)
                  /\ StatusIn(queue', steamId, CanonicalOrder[k])
                       \in {"passed", "failed", "deferred"}
                    => /\ InQueue(queue, steamId)
                       /\ StatusIn(queue, steamId, CanonicalOrder[k])
                            = StatusIn(queue', steamId, CanonicalOrder[k])
             /\ a \in Ingress
                  => \A steamId \in Ids :
                        InQueue(queue, steamId)
                          => /\ InQueue(queue', steamId)
                             /\ ProfileOf(queue', steamId) = ProfileOf(queue, steamId) ]_vars

\* the drain started by the sweep has written a check result to the queue
C20_Witness ==
  /\ fop["sweep"].pc = "done"
  /\ fop["sweep"].kind = "update"
  /\ fop["sweep"].status \in {"passed", "failed"}
  /\ fop["sweep"].ret
  /\ StatusIn(queue, fop["sweep"].steamId, fop["sweep"].checkName) = fop["sweep"].status

\* C17: in every pool state, from any loaded config file and after any calls
\* of add_socks5, remove_socks5, mark_current_cooldown and rotations, the
\* connection list is not empty, holds a direct connection, and has a direct
\* connection at index 0.
C17_DirectFirst ==
  /\ Len(config.connections) > 0
  /\ \E k \in 1..Len(config.connections) : config.connections[k].type = "direct"
  /\ ConnAt(config, 0).type = "direct"

\* a pool whose list was changed twice, the second time by a removal
C17_Witness ==
  /\ pool.call = "remove"
  /\ pool.calls = 2
  /\ Len(config.connections) >= 2

\* in_cooldown is set exactly where cooldown_until is set and in the future
FlagMatchesClock ==
  \A k \in 1..Len(config.connections) :
     config.connections[k].in_cooldown
       <=> (config.connections[k].cooldown_until # Null
            /\ config.connections[k].cooldown_until > now)

\* C18 as amended: in the pool state that a pool read leaves behind (current,
\* a rotation, all_in_cooldown, status, mark_current_cooldown), in_cooldown of
\* every connection is true iff its cooldown_until is set and in the future.
C18_FlagAfterRead ==
  pool.call \in {"current", "rotate", "all", "status", "mark", "error"} => FlagMatchesClock

\* all_in_cooldown() read at the instant one cooldown ends while another lasts
C18_Witness ==
  /\ pool.call = "all"
  /\ \E k, j \in 1..Len(pool.stamps) :
       /\ pool.stamps[k] = now
       /\ ~config.connections[k].in_cooldown
       /\ config.connections[j].in_cooldown

\* C18 as stated: in every reachable pool state, in_cooldown of every
\* connection is true iff its cooldown_until is set and in the future.
C18_FlagMatchesClock == FlagMatchesClock


\* the in-memory map holds checkName for steamId exactly when the queue file
\* records the check as deferred
InDeferredSet(steamId, checkName) ==
  checkName \in Range(DeferredTypes(deferredChecks, steamId))

DeferredInQueue(steamId, checkName) ==
  InQueue(queue, steamId) /\ StatusIn(queue, steamId, checkName) = "deferred"

\* the worker is between passes and nothing else is half-way through a
\* queue-file operation, a check or a drain
Quiescent ==
  /\ cpu = "free"
  /\ wk.pc = "idle"
  /\ sw.pc = "idle"
  /\ \A a \in Activities : fop[a].pc = "none"

\* C21: whenever the worker is between steps, a rate-limited check (friends,
\* csgo_inventory) is in the in-memory deferred set of an account id if and
\* only if the item is in the queue with that check recorded as deferred.
C21_DeferredSetConsistent ==
  Quiescent =>
    \A steamId \in Ids, checkName \in RateLimitedChecks :
      InDeferredSet(steamId, checkName) <=> DeferredInQueue(steamId, checkName)

\* the pass has recorded a deferred check in the queue and has ended
C21_Witness ==
  /\ Quiescent
  /\ \E steamId \in Ids, checkName \in RateLimitedChecks :
       DeferredInQueue(steamId, checkName)

(***************************************************************************)
(* The Queue Store alone: QueueManager's mutations called with any         *)
(* arguments on any well-formed queue file, one call at a time (SpecOps)   *)
(* or overlapping as the event loop allows (SpecEnqueue).  `requests`      *)
(* counts the calls made so far.                                           *)
(***************************************************************************)
\* calls per behaviour
MaxOps == 2

\* a profile with the first four checks passed and the given statuses of
\* steam_level, friends and csgo_inventory
ChecksWith(level, friends, inventory) ==
  [k \in 1..Len(NewProfileChecks) |->
     [name |-> NewProfileChecks[k].name,
      status |-> IF k <= 4 THEN "passed"
                 ELSE IF k = 5 THEN level
                 ELSE IF k = 6 THEN friends ELSE inventory]]

\* the checks objects of the queue files the calls start from
OpsChecks ==
  { NewProfileChecks,
    ChecksWith("passed", "deferred", "deferred"),
    ChecksWith("to_check", "failed", "deferred"),
    ChecksWith("passed", "passed", "passed") }

\* the third argument of updateProfileCheck: the four statuses and one that
\* is none of them
OpsStatuses == validStatuses \cup {"unknown"}

InitOps ==
  /\ \E n \in 0..MaxIds :
       \E ids \in [1..n -> Ids], cs \in [1..n -> OpsChecks] :
         /\ \A i, j \in 1..n : ids[i] = ids[j] => i = j
         /\ queue = [k \in 1..n |-> [steam_id |-> ids[k], checks |-> cs[k]]]
  /\ serial = queue
  /\ enqueued = {queue[k].steam_id : k \in 1..Len(queue)}
  /\ InitCommon

\* an HTTP handler calls addProfileToQueue, or other code calls
\* updateProfileCheck / removeProfileFromQueue / convertDeferredChecksToToCheck
OpCall(a, kind, steamId, checkName, status) ==
  /\ cpu = "free"
  /\ fop[a].pc = "none"
  /\ requests < MaxOps
  /\ requests' = requests + 1
  /\ fop' = [fop EXCEPT ![a] = FopRead(kind, steamId, checkName, status)]
  /\ UNCHANGED <<queue, config, now, lastApiCallTime, deferredChecks, isProcessing,
                 wk, sw, ck, dr, cpu, sweeps, histVars, pool, lastSent, downstream, life>>

AddCall(a) == \E steamId \in Ids : OpCall(a, "add", steamId, "", "")

UpdateCall ==
  \E steamId \in Ids, checkName \in Range(CanonicalOrder), status \in OpsStatuses :
    OpCall("worker", "update", steamId, checkName, status)

RemoveCall == \E steamId \in Ids : OpCall("worker", "remove", steamId, "", "")

ConvertCall == OpCall("sweep", "convert", 0, "", "")

\* the awaited call returns to its caller
OpReturn(a) ==
  /\ cpu = a
  /\ fop[a].pc = "done"
  /\ fop' = [fop EXCEPT ![a] = FopNone]
  /\ cpu' = "free"
  /\ UNCHANGED <<queue, config, now, lastApiCallTime, deferredChecks, isProcessing,
                 wk, sw, ck, dr, requests, sweeps, histVars, pool, lastSent, downstream, life>>

NoCallInFlight == \A a \in Activities : fop[a].pc = "none"

NextEnqueue ==
  \/ \E a \in Ingress : AddCall(a)
  \/ UpdateCall
  \/ RemoveCall
  \/ ConvertCall
  \/ \E a \in Activities : FileRead(a)
  \/ \E a \in Ingress, answer \in ExistsResponses : ExistsDone(a, answer)
  \/ \E a \in Activities : FileWrite(a)
  \/ \E a \in Activities : OpReturn(a)

SpecEnqueue == InitOps /\ [][NextEnqueue]_vars

NextOps ==
  \/ NoCallInFlight /\ AddCall("ingress1")
  \/ NoCallInFlight /\ UpdateCall
  \/ NoCallInFlight /\ RemoveCall
  \/ NoCallInFlight /\ ConvertCall
  \/ \E a \in Activities : FileRead(a)
  \/ \E answer \in ExistsResponses : ExistsDone("ingress1", answer)
  \/ \E a \in Activities : FileWrite(a)
  \/ \E a \in Activities : OpReturn(a)

SpecOps == InitOps /\ [][NextOps]_vars

\* the seven check names, each once, every status one of the four
WellFormedChecks(checks) ==
  /\ Len(checks) = Len(CanonicalOrder)
  /\ {checks[k].name : k \in 1..Len(checks)} = Range(CanonicalOrder)
  /\ \A k \in 1..Len(checks) :
       checks[k].status \in {"to_check", "passed", "failed", "deferred"}

\* C22: queue well-formedness.  No two items of the queue carry the same
\* account id, and every item's checks map has exactly the seven check names,
\* each with a status among to_check, passed, failed and deferred; this holds
\* under overlapping enqueues of the same or of different ids.
C22_WellFormed ==
  /\ \A i, j \in 1..Len(queue) : queue[i].steam_id = queue[j].steam_id => i = j
  /\ \A k \in 1..Len(queue) : WellFormedChecks(queue[k].checks)

\* two enqueues of one id overlapped: both found the id absent, one has
\* written its file and the other is about to write
C22_Witness ==
  /\ fop["ingress1"].kind = "add" /\ fop["ingress1"].pc = "write"
  /\ fop["ingress2"].kind = "add" /\ fop["ingress2"].pc = "done"
  /\ fop["ingress2"].ret
  /\ fop["ingress1"].steamId = fop["ingress2"].steamId
  /\ \E k \in 1..Len(queue) : queue[k].steam_id = fop["ingress1"].steamId

\* the call of the given kind that activity a awaits completes in this step
Returns(a, kind) ==
  /\ fop[a].kind = kind
  /\ fop[a].pc \in {"read", "exists", "write"}
  /\ fop'[a].pc = "done"

Queued(profiles, steamId) == \E k \in 1..Len(profiles) : profiles[k].steam_id = steamId

\* C23: enqueue.  When the id is already queued the queue is unchanged; else
\* when the remote service reports the id as existing nothing is appended;
\* else (it reports absent, or the existence check failed) exactly one item
\* with all seven checks at to_check is appended at the tail and the existing
\* items are unchanged.
C23_Enqueue ==
  [][\A a \in Ingress :
       Returns(a, "add") =>
         IF Queued(queue, fop[a].steamId)
         THEN queue' = queue
         ELSE IF fop'[a].status = "exists"
         THEN queue' = queue /\ ~fop'[a].ret
         ELSE /\ fop'[a].status \in {"absent", "failed"}
              /\ Len(queue') = Len(queue) + 1
              /\ SubSeq(queue', 1, Len(queue)) = queue
              /\ queue'[Len(queue')].steam_id = fop[a].steamId
              /\ [k \in 1..7 |-> queue'[Len(queue')].checks[k].name] = CanonicalOrder
              /\ \A k \in 1..7 : queue'[Len(queue')].checks[k].status = "to_check"]_vars

\* the existence check failed and the id was appended behind an existing item
C23_Witness ==
  /\ fop["ingress1"].kind = "add" /\ fop["ingress1"].pc = "done"
  /\ fop["ingress1"].status = "failed"
  /\ Len(queue) = 2
  /\ queue[2] = [steam_id |-> fop["ingress1"].steamId, checks |-> NewProfileChecks]
  /\ queue[1].checks # NewProfileChecks

\* C24: update_check fails when the id is absent (not_found) and when the
\* status is none of the four (invalid_status), and in both cases leaves the
\* queue unchanged; otherwise it changes exactly that one check of that one
\* item.
C24_UpdateCheck ==
  [][Returns("worker", "update") =>
       LET op == fop["worker"] IN
       IF ~Queued(queue, op.steamId)
            \/ op.status \notin {"to_check", "passed", "failed", "deferred"}
       THEN queue' = queue /\ ~fop'["worker"].ret
       ELSE /\ fop'["worker"].ret
            /\ Len(queue') = Len(queue)
            /\ \A k \in 1..Len(queue) :
                 /\ queue'[k].steam_id = queue[k].steam_id
                 /\ Len(queue'[k].checks) = Len(queue[k].checks)
                 /\ \A j \in 1..Len(queue[k].checks) :
                      /\ queue'[k].checks[j].name = queue[k].checks[j].name
                      /\ queue'[k].checks[j].status =
                           IF queue[k].steam_id = op.steamId
                                /\ queue[k].checks[j].name = op.checkName
                           THEN op.status
                           ELSE queue[k].checks[j].status]_vars

\* an update with a status that is none of the four was refused for a queued
\* id, after an earlier update of the same queue went through
C24_Witness ==
  /\ fop["worker"].kind = "update" /\ fop["worker"].pc = "done"
  /\ ~fop["worker"].ret
  /\ fop["worker"].status = "unknown"
  /\ Queued(queue, fop["worker"].steamId)
  /\ Len(queue) = 2
  /\ requests = 2
  /\ \E k \in 1..2 : queue[k].checks \notin OpsChecks

\* C25: remove is idempotent.  The first call for a queued id removes exactly
\* that item, keeps the relative order of the others and returns true; a
\* further call, or a call for an id that is absent, returns false and leaves
\* the queue unchanged.
C25_Remove ==
  [][Returns("worker", "remove") =>
       LET steamId == fop["worker"].steamId IN
       IF Queued(queue, steamId)
       THEN /\ fop'["worker"].ret
            /\ ~Queued(queue', steamId)
            /\ Len(queue') = Len(queue) - 1
            /\ \E at \in 1..Len(queue) :
                 /\ queue[at].steam_id = steamId
                 /\ \A k \in 1..Len(queue') :
                      queue'[k] = IF k < at THEN queue[k] ELSE queue[k + 1]
       ELSE queue' = queue /\ ~fop'["worker"].ret]_vars

\* the second of two calls for the same id has returned false: the first one
\* removed the item from the middle of the start-up queue
C25_Witness ==
  /\ fop["worker"].kind = "remove" /\ fop["worker"].pc = "done"
  /\ ~fop["worker"].ret
  /\ requests = 2
  /\ fop["worker"].steamId \in enqueued
  /\ ~Queued(queue, fop["worker"].steamId)
  /\ Len(queue) = 1

\* every deferred status replaced by to_check, nothing else changed
ResetDeferred(profiles) ==
  [k \in 1..Len(profiles) |->
     [steam_id |-> profiles[k].steam_id,
      checks |-> [j \in 1..Len(profiles[k].checks) |->
                    [name |-> profiles[k].checks[j].name,
                     status |-> IF profiles[k].checks[j].status = "deferred"
                                THEN "to_check"
                                ELSE profiles[k].checks[j].status]]]]

\* C26: reset_deferred_to_tocheck replaces every deferred status by to_check
\* and changes nothing else; applying it twice equals applying it once.
C26_ResetDeferred ==
  [][Returns("sweep", "convert") =>
       /\ queue' = ResetDeferred(queue)
       /\ ResetDeferred(queue') = queue']_vars

\* the second of two resets has returned: the first one rewrote a queue that
\* held deferred and failed statuses, the second one found nothing to rewrite
C26_Witness ==
  /\ fop["sweep"].kind = "convert" /\ fop["sweep"].pc = "done"
  /\ ~fop["sweep"].ret
  /\ requests = 2
  /\ \E k \in 1..Len(queue) : queue[k].checks = ChecksWith("to_check", "failed", "to_check")

\* every connection of the pool carries a cooldown that has not expired
AllCooledNow ==
  \A k \in 1..Len(config.connections) :
    /\ config.connections[k].in_cooldown
    /\ now < config.connections[k].cooldown_until

\* C27: whenever every pool connection is in cooldown at the moment a
\* rate-limited check (friends, csgo_inventory) would be dispatched, also when
\* the cooldown was stamped earlier in the same pass, no outbound request is
\* issued for that check and the check is recorded deferred in the queue: no
\* caller puts a rate-limited request in flight then, the pass answers with an
\* update of the check to deferred, and that update writes deferred.
C27_CooledDefers ==
  [][/\ \A a \in Callers :
          ck[a].pc = "send" /\ needsProxy(ck[a].checkName) /\ AllCooledNow
            => ck'[a].pc = "done" /\ ck'[a].result = "deferred"
     /\ \A a \in Callers :
          ck'[a].pc = "inflight" /\ ck[a].pc # "inflight" /\ needsProxy(ck'[a].checkName)
            => ~AllCooledNow
     /\ wk.pc = "loop" /\ wk'.pc # "loop" /\ wk.i <= Len(wk.checksToRun) /\ AllCooledNow
          /\ wk.checksToRun[wk.i] \in RateLimitedChecks /\ ~wk.isPrivateProfile
            => \/ /\ wk'.pc = "update"
                  /\ fop'["worker"] =
                       FopRead("update", wk.steamId, wk.checksToRun[wk.i], "deferred")
               \/ /\ wk'.pc = "check"
                  /\ ck'["worker"].pc \in {"gate", "send"}
     /\ wk.pc = "check" /\ wk'.pc # "check" /\ ck["worker"].result = "deferred"
            => /\ wk'.pc = "update"
               /\ fop'["worker"] =
                    FopRead("update", wk.steamId, ck["worker"].checkName, "deferred")
     /\ wk.pc = "update" /\ fop["worker"].status = "deferred"
          /\ fop["worker"].pc = "write" /\ fop'["worker"].pc = "done"
            => /\ Queued(queue', wk.steamId)
               /\ StatusIn(queue', wk.steamId, fop["worker"].checkName) = "deferred"]_vars

\* friends was answered by a cooldown error that stamped the last connection;
\* later in the same pass csgo_inventory was not sent and both are recorded
\* deferred
C27_Witness ==
  /\ wk.pc = "update"
  /\ ~wk.allConnectionsInCooldown
  /\ AllCooledNow
  /\ lastSent > 0
  /\ fop["worker"].pc = "done" /\ fop["worker"].ret
  /\ fop["worker"].checkName = "csgo_inventory"
  /\ fop["worker"].status = "deferred"
  /\ StatusIn(queue, wk.steamId, "friends") = "deferred"
  /\ StatusIn(queue, wk.steamId, "csgo_inventory") = "deferred"

\* the write of the sweep's convertDeferredChecksToToCheck
SweepConverts ==
  /\ fop["sweep"].kind = "convert"
  /\ fop["sweep"].pc = "write"
  /\ fop'["sweep"].pc = "done"

\* C28: deferred recovery; the part on the sweep.  While no connection of the
\* pool is available the sweep leaves the deferred statuses of the queue
\* unchanged: it turns deferred into to_check only when some connection's
\* cooldown has expired.
C28_SweepKeepsDeferred ==
  [][SweepConverts => ~AllCooledNow]_vars

\* the sweep has turned a deferred check back into to_check
C28_Witness ==
  /\ sw.pc = "convert"
  /\ fop["sweep"].pc = "done"
  /\ fop["sweep"].ret
  /\ \E steamId \in Ids, checkName \in RateLimitedChecks :
       /\ Queued(queue, steamId)
       /\ StatusIn(queue, steamId, checkName) = "to_check"
       /\ InDeferredSet(steamId, checkName)

\* the downstream writes invoked for an item since it was enqueued: those
\* answered and the one in progress
DownstreamCalls(steamId) ==
  Len(downstream[steamId]) + (IF wk.pc = "api" /\ wk.steamId = steamId THEN 1 ELSE 0)

\* C29: happy path; the part on the downstream write.  For an item whose
\* checks all passed and whose downstream write returned 200 (and nothing
\* else), the downstream write is invoked exactly once.
C29_WrittenOnce ==
  \A steamId \in Ids :
    Range(downstream[steamId]) = {"200"} => DownstreamCalls(steamId) = 1

\* the pass that got 200 from the downstream write has removed the item and
\* ended
C29_Witness ==
  /\ Quiescent
  /\ \E steamId \in Ids :
       /\ downstream[steamId] = <<"200">>
       /\ steamId \in enqueued
       /\ ~Queued(queue, steamId)

(***************************************************************************)
(* The service with passes that raise.  An error thrown inside             *)
(* processQueuedProfiles, by its own code when an awaited call has         *)
(* settled or by the awaited downstream write, is caught and logged; the   *)
(* finally block clears the flag and processQueue re-arms its timer.  The  *)
(* event loop runs every callback that is due, and a timer that is due     *)
(* over and over is not starved.                                           *)
(***************************************************************************)
PassRaises_FlagKept ==
  /\ wk.pc # "idle"
  /\ cpu = "worker" \/ (cpu = "free" /\ wk.pc = "api")
  /\ wk' = [WkIdle EXCEPT !.ended = "raised"]
  /\ cpu' = "free"
  /\ fop' = [fop EXCEPT !["worker"] = FopNone]
  /\ ck' = [ck EXCEPT !["worker"] = CkNone]
  /\ dr' = [dr EXCEPT !["worker"] = DrNone]
  /\ UNCHANGED <<queue, config, now, lastApiCallTime, deferredChecks, isProcessing,
                 sw, requests, sweeps, histVars, pool, lastSent, downstream, life>>

PassRaises ==
  /\ wk.pc # "idle"
  /\ cpu = "worker" \/ (cpu = "free" /\ wk.pc = "api")
  /\ isProcessing' = FALSE
  /\ wk' = [WkIdle EXCEPT !.ended = "raised"]
  /\ cpu' = "free"
  /\ fop' = [fop EXCEPT !["worker"] = FopNone]
  /\ ck' = [ck EXCEPT !["worker"] = CkNone]
  /\ dr' = [dr EXCEPT !["worker"] = DrNone]
  /\ UNCHANGED <<queue, config, now, lastApiCallTime, deferredChecks,
                 sw, requests, sweeps, histVars, pool, lastSent, downstream, life>>

\* the steps of one processQueue pass within one rate-limit window
NextPass ==
  \/ FileRead("worker")
  \/ FileWrite("worker")
  \/ GateWake("worker")
  \/ SendRequest("worker")
  \/ \E response \in {"pass", "fail", "empty", "401", "error", "429", "connection_error"} :
       Response("worker", response)
  \/ \E errorType \in CooldownErrors : ErrorResponse("worker", errorType)
  \/ DrainNext("worker")
  \/ DrainAfterCheck("worker")
  \/ DrainAfterUpdate("worker")
  \/ PassStart
  \/ WorkerAfterDrain
  \/ WorkerSelected
  \/ WorkerComplete
  \/ \E response \in ApiResponses : WorkerApiResponse(response)
  \/ WorkerAfterRemove1
  \/ WorkerAfterRemove2
  \/ WorkerLoop
  \/ WorkerAfterCheck
  \/ WorkerAfterUpdate
  \/ WorkerAfterRemoveFailed
  \/ ShortTick

\* processQueue alone: no request comes in and the sweep's timer is not yet due
NextRearm ==
  \/ NextPass
  \/ LongTick
  \/ PassRaises

SpecRearm ==
  Init /\ [][NextRearm]_vars /\ WF_vars(NextRearm) /\ SF_vars(PassStart)

\* C30: no error short-circuits re-arming.  After every pass, whether it
\* ended normally, returned early or raised an error, the in-progress flag is
\* clear, and the timer of the next pass fires: a later pass always runs.
C30_Rearmed ==
  /\ [](wk.pc = "idle" => ~isProcessing)
  /\ (wk.pc = "idle") ~> (wk.pc # "idle")

\* a pass that raised has ended, and the next pass has got past the guard
C30_Witness ==
  /\ wk.ended = "raised"
  /\ wk.pc = "select"
  /\ isProcessing

(***************************************************************************)
(* C34: a transient error of a dispatched check                            *)
(***************************************************************************)
\* the check call of the pass has returned a transient error
TransientReturned ==
  /\ wk.pc = "check"
  /\ ck["worker"].pc = "done"
  /\ ck["worker"].result = "error"

\* C34: when a dispatched check returns a transient error, the answer and the
\* pass's handling of it write nothing: the queue (so the check's status and
\* the item's position), every connection of the pool and the deferred set
\* are left as they were, and the pass ends there, so no later check of the
\* item is dispatched in the same pass.
C34_TransientBreaks ==
  [][/\ (wk.pc = "check" /\ ck["worker"].pc = "inflight" /\ TransientReturned')
        => (queue' = queue /\ config' = config /\ deferredChecks' = deferredChecks)
     /\ TransientReturned
        => (/\ wk'.pc = "idle"
            /\ ck'["worker"].pc = "none"
            /\ queue' = queue
            /\ config' = config
            /\ deferredChecks' = deferredChecks)]_vars

\* a rate-limited check of a queued item has returned a transient error while
\* it is still to_check and another check of the pass is left to run
C34_Witness ==
  /\ TransientReturned
  /\ ck["worker"].checkName \in RateLimitedChecks
  /\ wk.i < Len(wk.checksToRun)
  /\ InQueue(queue, wk.steamId)
  /\ CheckStatus(ProfileOf(queue, wk.steamId).checks, ck["worker"].checkName) = "to_check"

(***************************************************************************)
(* C35: a deferred result does not end the item's pass                     *)
(***************************************************************************)
\* the pass is in updateProfileCheck(steamId, checkName, "deferred")
WritingDeferred ==
  /\ wk.pc = "update"
  /\ fop["worker"].kind = "update"
  /\ fop["worker"].status = "deferred"

SomeDeferred(profiles, steamId) ==
  /\ InQueue(profiles, steamId)
  /\ SomeStatus(ProfileOf(profiles, steamId).checks, "deferred")

\* C35: when a dispatched rate-limited check returns deferred, the pass calls
\* updateProfileCheck(steamId, checkName, "deferred"), whose write stores
\* deferred for that check, and when the call returns the pass goes on with
\* the next check of the same item; and the pass starts the downstream write
\* of an item only when the item is queued with no deferred check.
C35_DeferredContinues ==
  [][/\ (wk.pc = "check" /\ ck["worker"].pc = "done" /\ ck["worker"].result = "deferred")
        => (/\ WritingDeferred'
            /\ fop'["worker"].pc = "read"
            /\ fop'["worker"].steamId = wk.steamId
            /\ fop'["worker"].checkName = ck["worker"].checkName
            /\ wk'.i = wk.i)
     /\ (WritingDeferred /\ fop["worker"].pc = "write" /\ fop'["worker"].pc = "done")
        => (/\ InQueue(queue', wk.steamId)
            /\ CheckStatus(ProfileOf(queue', wk.steamId).checks,
                           fop["worker"].checkName) = "deferred")
     /\ (WritingDeferred /\ fop["worker"].pc = "done" /\ wk' # wk)
        => (/\ wk'.pc = "loop"
            /\ wk'.steamId = wk.steamId
            /\ wk'.checksToRun = wk.checksToRun
            /\ wk'.i = wk.i + 1)
     /\ (wk.pc # "api" /\ wk'.pc = "api")
        => (InQueue(queue, wk'.steamId) /\ ~SomeDeferred(queue, wk'.steamId))]_vars

\* friends was dispatched and deferred, and the same pass is at the head of
\* its loop with csgo_inventory next
C35_Witness ==
  /\ wk.pc = "loop"
  /\ wk.i = 2
  /\ wk.checksToRun = <<"friends", "csgo_inventory">>
  /\ wk.dispatched = <<"friends">>
  /\ InQueue(queue, wk.steamId)
  /\ CheckStatus(ProfileOf(queue, wk.steamId).checks, "friends") = "deferred"

(***************************************************************************)
(* C38: a completion evaluation ends in removal                            *)
(***************************************************************************)
\* C38: whenever a pass selected an item whose checks were all passed or
\* failed (none to_check), the item is absent from the queue when that pass
\* ends, whatever the downstream write returned.
C38_EvaluationRemoves ==
  [][(wk.selectedComplete /\ wk'.pc = "idle") => ~InQueue(queue', wk.steamId)]_vars

\* the pass that selected a completed item ends after a retryable answer of
\* the downstream write
C38_Witness ==
  /\ wk.selectedComplete
  /\ wk.pc = "remove2"
  /\ fop["worker"].pc = "done"
  /\ wk.apiResult = "503"
  /\ ~InQueue(queue, wk.steamId)

(***************************************************************************)
(* C37: the profile-asset checks and the pool                              *)
(***************************************************************************)
\* activity a is inside the call of one of the five profile-asset checks
AssetCall(a) ==
  /\ ck[a].pc \in {"send", "inflight"}
  /\ ck[a].checkName \in Range(nonRateLimitedChecks)

\* C37: sending the request of a profile-asset check and receiving any answer
\* to it, HTTP 429 and connection errors included, leave every connection's
\* cooldown fields and current_index as they were and add nothing to the
\* deferred set; the answer ends the call at once with a definitive outcome
\* or a transient error, never with deferred.
C37_AssetChecksLeavePool ==
  [][\A a \in Callers :
       (AssetCall(a) /\ ck'[a] # ck[a])
       => (/\ config' = config
           /\ deferredChecks' = deferredChecks
           /\ ck[a].pc = "inflight"
              => (/\ ck'[a].pc = "done"
                  /\ ck'[a].result \in {"passed", "failed", "private", "error"}))]_vars

\* the steam_level request of the pass was sent and came back with an error
C37_Witness ==
  /\ ck["worker"].pc = "done"
  /\ ck["worker"].checkName = "steam_level"
  /\ ck["worker"].result = "error"
  /\ lastSent = now

(***************************************************************************)
(* C39: current_index after loading any config file                        *)
(***************************************************************************)
\* current_index names an existing connection
IndexInRange(cfg) ==
  0 <= cfg.current_index /\ cfg.current_index < Len(cfg.connections)

\* new ProxyManager(configDir) over a config file whose current_index is any
\* number up to the length of its list
InitLoad ==
  /\ \E n \in 0..MaxConns : \E file \in [1..n -> FileEntries] :
       \E current_index \in {Missing} \cup 0..MaxConns :
         config = ensureConfigStructure(
                    [connections |-> file, current_index |-> current_index,
                     cooldown_duration_ms |-> DEFAULT_COOLDOWN_DURATION])
  /\ queue = << >>
  /\ serial = queue
  /\ enqueued = {}
  /\ now = minApiCallInterval
  /\ lastApiCallTime = 0
  /\ deferredChecks = << >>
  /\ isProcessing = FALSE
  /\ wk = WkIdle
  /\ sw = SwIdle
  /\ fop = [a \in Activities |-> FopNone]
  /\ ck = [a \in Callers |-> CkNone]
  /\ dr = [a \in Callers |-> DrNone]
  /\ cpu = "free"
  /\ requests = 0
  /\ sweeps = 0
  /\ resolved = {}
  /\ failedEval = {}
  /\ lastSent = 0
  /\ downstream = [steamId \in Ids |-> << >>]
  /\ life = LifeRunning
  /\ pool = [PoolNone EXCEPT !.call = "load",
                             !.stamps = [k \in 1..Len(config.connections) |-> Null],
                             !.missed = {k - 1 : k \in 1..Len(config.connections)}]

\* getCurrentConnection when connections[current_index] is undefined: the
\* sweep of expired cooldowns runs, then reading currentConn.in_cooldown throws
PoolRaises ==
  /\ ~IndexInRange(config)
  /\ config' = checkAndResetCooldowns(config, now)
  /\ pool' = PoolRead("raised", << >>)
  /\ PoolFrame

\* the calls that read connections[current_index] are made only while it
\* exists; otherwise they raise
NextLoad ==
  \/ IndexInRange(config) /\ NextPool
  \/ /\ ~IndexInRange(config)
     /\ \/ \E d \in PoolSteps : PoolTick(d)
        \/ PoolRotate
        \/ PoolAllInCooldown
        \/ \E proxyUrl \in PoolUrls : PoolAdd(proxyUrl)
        \/ \E proxyUrl \in PoolUrls : PoolRemove(proxyUrl)
        \/ PoolRaises

SpecLoad == InitLoad /\ [][NextLoad]_vars

\* C39: in every pool state reached by loading any config file and then any
\* sequence of add_socks5, remove_socks5, mark_current_cooldown, rotations and
\* cooldown sweeps, 0 <= current_index < number of connections, so current()
\* returns an existing connection.
C39_IndexInRange == IndexInRange(config)

\* current() was called on a loaded config whose current_index names no
\* connection, and raised
C39_Witness == pool.call = "raised" /\ ~IndexInRange(config)

(***************************************************************************)
(* Rate-limited check calls over a pool of several connections             *)
(***************************************************************************)
\* check calls of a run
MaxCalls == 2

CallUrls == <<"socks5://a", "socks5://b">>

\* a pool of n connections, direct first, of which those in `cooled` carry
\* a cooldown of five minutes stamped now
PoolOf(n, cooled, current_index) ==
  [connections |->
     [k \in 1..n |->
        [type |-> IF k = 1 THEN "direct" ELSE "socks5",
         url |-> IF k = 1 THEN NoUrl ELSE CallUrls[k - 1],
         in_cooldown |-> k \in cooled,
         cooldown_until |-> IF k \in cooled THEN minApiCallInterval + LongTickMs
                            ELSE Null]],
   current_index |-> current_index,
   cooldown_duration_ms |-> DEFAULT_COOLDOWN_DURATION]

InitCalls ==
  /\ \E n \in 1..MaxConns : \E cooled \in SUBSET (1..n) :
       \E current_index \in 0..(n - 1) : config = PoolOf(n, cooled, current_index)
  /\ queue = << >>
  /\ serial = queue
  /\ enqueued = {}
  /\ now = minApiCallInterval
  /\ lastApiCallTime = 0
  /\ deferredChecks = << >>
  /\ isProcessing = FALSE
  /\ wk = WkIdle
  /\ sw = SwIdle
  /\ fop = [a \in Activities |-> FopNone]
  /\ ck = [a \in Callers |-> CkNone]
  /\ dr = [a \in Callers |-> DrNone]
  /\ cpu = "free"
  /\ requests = 0
  /\ sweeps = 0
  /\ resolved = {}
  /\ failedEval = {}
  /\ lastSent = 0
  /\ pool = PoolNone
  /\ downstream = [steamId \in Ids |-> << >>]
  /\ life = LifeRunning

\* checkFriends(steamId) / checkCsgoInventory(steamId) is called
CallStart(a, checkName) ==
  /\ cpu = "free"
  /\ ck[a].pc = "none"
  /\ requests < MaxCalls
  /\ requests' = requests + 1
  /\ StartCheck(a, 1, checkName)
  /\ UNCHANGED <<queue, config, now, deferredChecks, isProcessing,
                 wk, sw, fop, dr, sweeps, histVars, pool, lastSent, downstream, life>>

\* the check function returns its result to its caller
CallReturn(a) ==
  /\ cpu = a
  /\ ck[a].pc = "done"
  /\ ck' = [ck EXCEPT ![a] = CkNone]
  /\ cpu' = "free"
  /\ UNCHANGED <<queue, config, now, lastApiCallTime, deferredChecks, isProcessing,
                 wk, sw, fop, dr, requests, sweeps, histVars, pool, lastSent, downstream, life>>

NextCalls ==
  \/ \E a \in Callers, checkName \in RateLimitedChecks : CallStart(a, checkName)
  \/ \E a \in Callers : GateWake(a)
  \/ \E a \in Callers : SendRequest(a)
  \/ \E a \in Callers, response \in {"pass", "fail", "401", "error"} : Response(a, response)
  \/ \E a \in Callers, errorType \in CooldownErrors : ErrorResponse(a, errorType)
  \/ \E a \in Callers : CallReturn(a)
  \/ ShortTick

SpecCalls == InitCalls /\ [][NextCalls]_vars

Distinct(seq) == \A i, j \in 1..Len(seq) : i # j => seq[i] # seq[j]

SmokeTest ==
  /\ cpu = "free"
  /\ \E k \in 1..Len(config.connections) : config.connections[k].type = "socks5"
  /\ PoolCurrent

\* remove_socks5 between two steps of the calls
RemoveProxy(proxyUrl) ==
  /\ cpu = "free"
  /\ removeSocks5Proxy(config, proxyUrl) # config
  /\ config' = removeSocks5Proxy(config, proxyUrl)
  /\ UNCHANGED <<queue, now, lastApiCallTime, deferredChecks, isProcessing,
                 wk, sw, fop, ck, dr, cpu, requests, sweeps, histVars, pool, lastSent, downstream, life>>

NextRace ==
  \/ NextCalls
  \/ SmokeTest
  \/ \E k \in 1..Len(CallUrls) : RemoveProxy(CallUrls[k])

SpecRace == InitCalls /\ [][NextRace]_vars

\* the url of the connection that carries the request of a in flight
Carrier(a) == ck[a].tried[Len(ck[a].tried)]

\* the request of a fails with a cooldown error: the catch block of
\* makeApiRequest stamps connections[current_index]
StampStep(a) ==
  /\ ck[a].pc = "inflight"
  /\ needsProxy(ck[a].checkName)
  /\ \/ ck'[a].pc \in {"gate", "send"}
     \/ ck'[a].pc = "done" /\ ck'[a].result = "deferred"

\* C40: the connection put in cooldown after a failed rate-limited request is
\* the connection that carried the request, whatever ran while the request
\* was in flight: the check calls of the deferred drain, the proxy smoke test
\* and remove_socks5.
C40_StampsCarrier ==
  [][\A a \in Callers :
       StampStep(a) => ConnAt(config, config.current_index).url = Carrier(a)]_vars

\* a rate-limited request is in flight and current_index names another
\* connection than the one that carries it
C40_Witness ==
  \E a \in Callers :
    /\ ck[a].pc = "inflight"
    /\ ConnAt(config, config.current_index).url # Carrier(a)

(***************************************************************************)
(* C33: withFileOperation when the queue file cannot be read or written    *)
(***************************************************************************)
maxRetries == 3

\* Math.min(500 * attempts, 2000)
WaitTime(attempts) == IF 500 * attempts < 2000 THEN 500 * attempts ELSE 2000

\* fs.readFile / fs.writeFile of the operation of a rejects.  The inner catch
\* of addProfileToQueue rethrows, so withFileOperation retries or gives up;
\* the inner catch of every other operation returns a value: [] for
\* getQueuedProfiles, false or zero counts for the mutations.
FileFails(a) ==
  /\ cpu = "free"
  /\ fop[a].pc \in {"read", "write"}
  /\ LET op == fop[a]
         after ==
           IF op.kind = "add"
           THEN IF op.attempts > maxRetries
                THEN [op EXCEPT !.pc = "thrown", !.failed = TRUE]
                ELSE [op EXCEPT !.pc = "backoff", !.failed = TRUE,
                                !.wakeAt = now + WaitTime(op.attempts)]
           ELSE IF op.kind = "get"
           THEN [op EXCEPT !.pc = "done", !.buf = << >>, !.failed = TRUE]
           ELSE [op EXCEPT !.pc = "done", !.ret = FALSE, !.failed = TRUE]
     IN /\ fop' = [fop EXCEPT ![a] = after]
        /\ cpu' = IF after.pc = "backoff" THEN "free" ELSE a
  /\ UNCHANGED <<queue, config, now, lastApiCallTime, deferredChecks, isProcessing,
                 wk, sw, ck, dr, requests, sweeps, histVars, pool, lastSent, downstream, life>>

\* the delay of withFileOperation ends: the loop runs the operation again
BackoffWake(a) ==
  /\ cpu = "free"
  /\ fop[a].pc = "backoff"
  /\ now >= fop[a].wakeAt
  /\ fop' = [fop EXCEPT ![a] =
               [FopRead(@.kind, @.steamId, @.checkName, "")
                  EXCEPT !.attempts = fop[a].attempts + 1]]
  /\ UNCHANGED <<queue, config, now, lastApiCallTime, deferredChecks, isProcessing,
                 wk, sw, ck, dr, cpu, requests, sweeps, histVars, pool, lastSent, downstream, life>>

\* withFileOperation throws to the caller of the queue operation
OpThrows(a) ==
  /\ cpu = a
  /\ fop[a].pc = "thrown"
  /\ fop' = [fop EXCEPT ![a] = FopNone]
  /\ cpu' = "free"
  /\ UNCHANGED <<queue, config, now, lastApiCallTime, deferredChecks, isProcessing,
                 wk, sw, ck, dr, requests, sweeps, histVars, pool, lastSent, downstream, life>>

\* the clock advances by the shortest delay while a retry is waiting
RetryTick ==
  /\ cpu = "free"
  /\ \E a \in Activities : fop[a].pc = "backoff" /\ now < fop[a].wakeAt
  /\ now' = now + WaitTime(1)
  /\ UNCHANGED <<queue, config, lastApiCallTime, deferredChecks, isProcessing,
                 wk, sw, fop, ck, dr, cpu, requests, sweeps, histVars, pool, lastSent, downstream, life>>

\* the queue operations one call at a time, over a file whose reads and
\* writes may fail
NextRetry ==
  \/ NextOps
  \/ NoCallInFlight /\ OpCall("worker", "get", 0, "", "")
  \/ \E a \in Activities : FileFails(a)
  \/ \E a \in Activities : BackoffWake(a)
  \/ \E a \in Activities : OpThrows(a)
  \/ RetryTick

SpecRetry == InitOps /\ [][NextRetry]_vars

\* C33: a queue file operation whose file access fails is attempted at most
\* three times, the waits between the attempts are 500, 1000 and 1500 ms, and
\* a failed attempt is either retried or its error is thrown to the caller:
\* no call returns a value (an empty queue, false) after a failed attempt.
C33_RetrySurfaces ==
  \A a \in Activities :
    /\ fop[a].attempts <= maxRetries
    /\ fop[a].pc = "backoff" => fop[a].wakeAt - now <= 500 * fop[a].attempts
    /\ fop[a].failed => fop[a].pc \in {"backoff", "thrown"}

\* addProfileToQueue gave up: its fourth attempt failed, 3000 ms after the
\* first
C33_Witness ==
  \E a \in Activities :
    /\ fop[a].pc = "thrown"
    /\ fop[a].kind = "add"
    /\ fop[a].attempts = maxRetries + 1
    /\ now = minApiCallInterval + 500 + 1000 + 1500

(***************************************************************************)
(* Shutdown and restart of the process                                     *)
(***************************************************************************)
\* restarts of a run
MaxRestarts == 1

\* the delay of the timer gracefulShutdown arms
ShutdownDelay == 1000

\* SIGINT / SIGTERM: gracefulShutdown stops the HTTP server (no request is
\* open here) and arms the timer of process.exit
Signal ==
  /\ cpu = "free"
  /\ life.phase = "running"
  /\ life' = [life EXCEPT !.phase = "stopping", !.exitAt = now + ShutdownDelay]
  /\ UNCHANGED <<queue, config, now, lastApiCallTime, deferredChecks, isProcessing,
                 wk, sw, fop, ck, dr, cpu, requests, sweeps, histVars, pool, lastSent,
                 downstream>>

\* the clock reaches the end of the shutdown delay
ShutdownTick ==
  /\ cpu = "free"
  /\ life.phase = "stopping"
  /\ now < life.exitAt
  /\ now' = life.exitAt
  /\ UNCHANGED <<queue, config, lastApiCallTime, deferredChecks, isProcessing,
                 wk, sw, fop, ck, dr, cpu, requests, sweeps, histVars, pool, lastSent,
                 downstream, life>>

\* the timer of gracefulShutdown fires: process.exit(0)
ProcessExit ==
  /\ cpu = "free"
  /\ life.phase = "stopping"
  /\ now >= life.exitAt
  /\ life' = [life EXCEPT !.phase = "exited"]
  /\ UNCHANGED <<queue, config, now, lastApiCallTime, deferredChecks, isProcessing,
                 wk, sw, fop, ck, dr, cpu, requests, sweeps, histVars, pool, lastSent,
                 downstream>>

\* The process is started again, after an exit or after being killed between
\* two callbacks.  The queue file and the proxy config file are what the old
\* process left; everything in memory is new, and main() has called
\* convertDeferredChecksToToCheck() without awaiting it.
Restart ==
  /\ cpu = "free"
  /\ life.restarts < MaxRestarts
  /\ life' = [LifeRunning EXCEPT !.restarts = life.restarts + 1]
  /\ lastApiCallTime' = 0
  /\ deferredChecks' = << >>
  /\ isProcessing' = FALSE
  /\ wk' = WkIdle
  /\ sw' = SwIdle
  /\ fop' = [a \in Activities |->
               IF a = "main" THEN FopRead("convert", 0, "", "") ELSE FopNone]
  /\ ck' = [a \in Callers |-> CkNone]
  /\ dr' = [a \in Callers |-> DrNone]
  /\ UNCHANGED <<queue, config, now, cpu, requests, sweeps, histVars, pool, lastSent,
                 downstream>>

\* the .then callback of the startup conversion
MainAfterConvert ==
  /\ cpu = "main"
  /\ fop["main"].pc = "done"
  /\ fop' = [fop EXCEPT !["main"] = FopNone]
  /\ cpu' = "free"
  /\ UNCHANGED <<queue, config, now, lastApiCallTime, deferredChecks, isProcessing,
                 wk, sw, ck, dr, requests, sweeps, histVars, pool, lastSent,
                 downstream, life>>

\* the processQueue chain and the startup conversion of a process that can be
\* signalled, exit and be started again; nothing runs after the exit
NextLife ==
  \/ /\ life.phase # "exited"
     /\ \/ NextPass
        \/ FileRead("main")
        \/ FileWrite("main")
        \/ MainAfterConvert
  \/ Signal
  \/ ShutdownTick
  \/ ProcessExit
  \/ Restart

SpecLife == Init /\ [][NextLife]_vars

\* C31: after a shutdown signal the active check is allowed to complete and
\* its result is persisted before the process ends (the process exits with no
\* pass under way), and the worker loop does not re-arm: no pass starts after
\* the signal.
C31_SoftShutdown ==
  [][/\ (life.phase = "stopping" /\ life'.phase = "exited")
        => (wk.pc = "idle" /\ ck["worker"].pc = "none" /\ fop["worker"].pc = "none")
     /\ (life.phase = "stopping" /\ life'.phase = "stopping" /\ wk.pc = "idle")
        => wk'.pc = "idle"]_vars

\* the process has exited while the request of a dispatched check was in flight
C31_Witness ==
  /\ life.phase = "exited"
  /\ wk.pc = "check"
  /\ ck["worker"].pc = "inflight"

(***************************************************************************)
(* C32: the queue across a restart                                         *)
(***************************************************************************)
\* the conversion main() started has not written yet
StartupPending == fop["main"].pc \in {"read", "write"}

\* getNextProcessableProfile of the pass reads the queue file
SelectionRead ==
  /\ wk.pc = "select"
  /\ fop["worker"].pc = "read"
  /\ fop'["worker"].pc = "done"

\* the pass dispatches a check
Dispatches == Len(wk'.dispatched) > Len(wk.dispatched)

\* C32: a restart leaves the queue file as it was, so every check persisted
\* as passed is still passed, and the new process dispatches no check that
\* the queue records as passed; every deferred check has been reset to
\* to_check when a pass of the new process reads the queue to select an item;
\* and when the startup conversion has returned, the in-memory deferred set
\* agrees with the deferred statuses of the queue.
C32_RestartRestores ==
  [][/\ life'.restarts > life.restarts => queue' = queue
     /\ (life.restarts > 0 /\ Dispatches)
        => ~(/\ InQueue(queue, wk'.steamId)
             /\ StatusIn(queue, wk'.steamId,
                         wk'.dispatched[Len(wk'.dispatched)]) = "passed")
     /\ (life.restarts > 0 /\ SelectionRead /\ StartupPending) => ~HasDeferred(queue)
     /\ (fop["main"].pc = "done" /\ fop'["main"].pc = "none" /\ wk.pc = "idle")
        => \A steamId \in Ids, checkName \in RateLimitedChecks :
             InDeferredSet(steamId, checkName) <=> DeferredInQueue(steamId, checkName)]_vars

\* after a restart the startup conversion has reset a deferred check of the
\* old process before any pass of the new one started
C32_Witness ==
  /\ life.restarts = 1
  /\ fop["main"].pc = "done"
  /\ fop["main"].ret
  /\ wk.pc = "idle"
  /\ ~HasDeferred(queue)
====
